---------------------------- MODULE Spec2Model ----------------------------
(***************************************************************************)
(* Model of the deployment-tracker controller.                             *)
(*                                                                         *)
(*   - the Delivery Client (pkg/deploymentrecord/client.go): NewClient,    *)
(*     WithRetries and the attempt loop of PostOne, one step per           *)
(*     statement group of the loop;                                        *)
(*   - the controller (package controller): the informer's handlers, the   *)
(*     rate limited work queue, the worker loop and processEvent /         *)
(*     recordContainer with the observedDeployments cache.                 *)
(*                                                                         *)
(* Time is in milliseconds.  time.Duration is an int64 of nanoseconds; the *)
(* backoff of PostOne is computed with that width (see Backoff).           *)
(***************************************************************************)
EXTENDS Integers, Sequences, FiniteSets, TLC

(***************************************************************************)
(* Bounds of the model.                                                    *)
(***************************************************************************)
\* largest value given to WithRetries
MaxRetries == 38
\* number of pod objects the cluster creates in a run with one worker; a run
\* with the worker pool of main creates one fewer
MaxPods == 3
\* number of recordContainer decisions of one run (entries of hist)
MaxHist == 3
\* number of PostOne calls the service lets fail while the context is live
MaxFaults == 1

(***************************************************************************)
(* Program constants.                                                      *)
(***************************************************************************)
\* NewClient: retries: 3
DefaultRetries == 3
\* PostOne: 100 * time.Millisecond
BaseDelayMs == 100
\* PostOne: rand.Int64N(50)
JitterN == 50
\* PostOne: 5 * time.Second
MaxDelayMs == 5000
\* http.StatusTooManyRequests, the one 4xx that is retried
StatusTooManyRequests == 429
\* main: flag.IntVar(&workers, "workers", 2, ...)
DefaultWorkers == 2
\* main: if workers < 1 || workers > 100
MinWorkers == 1

VARIABLES
    \* ---- Client.PostOne, one call ----
    retries,      \* Client.retries
    useApp,       \* Client.transport # nil (token from the app transport)
    badURL,       \* http.NewRequestWithContext fails on the client's URL
    cancelled,    \* ctx.Done() is closed
    postPc,       \* position of the call inside PostOne
    attempt,      \* loop variable of PostOne
    delay,        \* delay slept before the current attempt (ms)
    jitter,       \* jitter drawn for the current attempt (ms)
    lastErr,      \* lastErr of PostOne
    httpCalls,    \* number of c.httpClient.Do calls of this call
    sleeps,       \* number of backoff sleeps started by this call
    postResult,   \* value returned by PostOne
    postMetrics   \* the four PostDeploymentRecord* counters

postVars == <<retries, useApp, badURL, cancelled, postPc, attempt, delay,
              jitter, lastErr, httpCalls, sleeps, postResult, postMetrics>>

VARIABLES
    \* ---- the cluster, as the informer and the API server show it ----
    indexer,      \* podInformer.GetIndexer(): key -> pod (NoPod when absent)
    deployments,  \* names of the Deployments the API server has
    created,      \* number of pod objects created so far
    podLimit,     \* number of pod objects the cluster creates in this run
    \* ---- Controller ----
    workers,      \* the workers argument of Run
    template,     \* Controller.cfg.Template
    queue,        \* workqueue: items waiting for Get, in order
    dirty,        \* workqueue: items that need processing
    processing,   \* workqueue: items handed out by Get and not yet Done
    waiting,      \* workqueue: items of AddRateLimited waiting for their delay
    failures,     \* rate limiter: item -> number of requeues since Forget
    shuttingDown, \* workqueue: ShutDown was called
    observedDeployments, \* Controller.observedDeployments: set of cache keys
    pc,           \* worker -> position in processNextItem
    event,        \* worker -> the PodEvent returned by Get
    pod,          \* worker -> pod of processEvent
    todo,         \* worker -> containers processEvent still has to record
    exists,       \* worker -> result of deploymentExists in this pass
    procErr,      \* worker -> lastErr of processEvent
    passPosts,    \* worker -> PostOne calls made in this pass
    \* ---- what recordContainer decided and the service answered ----
    hist          \* recordContainer decisions, oldest first

queueVars == <<queue, dirty, processing, waiting, failures, shuttingDown>>
workerVars == <<pc, event, pod, todo, exists, procErr, passPosts>>
deliveryVars == <<hist>>
VARIABLES
    \* ---- one call of a function of the packages image, controller and
    \* deploymentrecord (ExtractDigest, ExtractName, ValidTemplate, ...) ----
    arg,          \* the arguments of the call
    ret           \* the values it returned

clusterVars == <<indexer, deployments, created, podLimit>>
cfgVars == <<workers, template>>
callVars == <<arg, ret>>
ctrlVars == <<clusterVars, cfgVars, queueVars, observedDeployments,
              workerVars, deliveryVars>>

vars == <<postVars, ctrlVars, callVars>>

(***************************************************************************)
(* Arithmetic helpers.                                                     *)
(***************************************************************************)
RECURSIVE Pow2(_)
Pow2(n) == IF n = 0 THEN 1 ELSE 2 * Pow2(n - 1)

Min(a, b) == IF a < b THEN a ELSE b

\* bit i of the natural number n
Bit(n, i) == (n \div Pow2(i)) % 2

(***************************************************************************)
(* time.Duration(math.Pow(2, float64(attempt))) * 100 * time.Millisecond   *)
(*                                                                         *)
(* The product is an int64 number of nanoseconds: 2^k * 10^8 modulo 2^64,  *)
(* read as a two's complement number.  10^8 = 2^8 * 5^8, so the product    *)
(* is 5^8 * 2^(k+8):                                                       *)
(*   k <= 36       no overflow, the value is 2^k * 100 ms;                 *)
(*   37 <= k <= 55 the bits of 5^8 above bit 63 are lost; bit 63 of the    *)
(*                 result is bit 55-k of 5^8 and gives the sign; the       *)
(*                 magnitude is at least 2^45 ns;                          *)
(*   56 <= k <= 62 every bit is shifted out, the product is 0.             *)
(* The model holds the value in milliseconds.  Magnitudes of 2^30 ms and   *)
(* more are all held as Huge: only the sign and the comparison with the    *)
(* 5 s cap are ever used.                                                  *)
(***************************************************************************)
Huge == Pow2(30)
FiveToEight == 390625
\* largest attempt whose backoff in ms is below Huge
MaxExactAttempt == 23
\* largest attempt whose backoff fits an int64 of nanoseconds
MaxFitAttempt == 36
\* largest attempt whose backoff has a bit left in the int64
MaxBitAttempt == 55

Backoff(k) ==
    IF k <= MaxExactAttempt THEN Pow2(k) * BaseDelayMs
    ELSE IF k <= MaxFitAttempt THEN Huge
    ELSE IF k <= MaxBitAttempt
         THEN IF Bit(FiveToEight, MaxBitAttempt - k) = 1 THEN -Huge ELSE Huge
    ELSE 0

\* a cap applied to the backoff alone, before the jitter is added
Delay_CapBeforeJitter(k, j) ==
    LET b == Backoff(k)
    IN  (IF b > MaxDelayMs THEN MaxDelayMs ELSE b) + j

\* delay := backoff + jitter; if delay > 5*time.Second { delay = 5s }
Delay(k, j) ==
    LET d == Backoff(k) + j
    IN  IF d > MaxDelayMs THEN MaxDelayMs ELSE d

(***************************************************************************)
(* Responses of one HTTP attempt.  0 stands for an error returned by       *)
(* httpClient.Do (no response); any other value is resp.StatusCode.        *)
(***************************************************************************)
NetErr == 0
StatusCodes == {199, 200, 299, 300, 400, 404, 429, 499, 500}
Responses == {NetErr} \cup StatusCodes

Is2xx(code) == code >= 200 /\ code < 300

\* the lower edge of the 4xx range taken as exclusive
IsClientStatus_ExclusiveEdge(code) ==
    code > 400 /\ code < 500 /\ code # StatusTooManyRequests

\* resp.StatusCode >= 400 && resp.StatusCode < 500 && resp.StatusCode != 429
IsClientStatus(code) ==
    code >= 400 /\ code < 500 /\ code # StatusTooManyRequests

NoErr == [kind |-> "nil", code |-> 0]
RequestErr == [kind |-> "post request failed", code |-> 0]
StatusErr(code) == [kind |-> "unexpected status code", code |-> code]

Pending == [kind |-> "pending", wraps |-> NoErr]
Returned(kind, err) == [kind |-> kind, wraps |-> err]

ZeroMetrics == [ok |-> 0, softFail |-> 0, clientError |-> 0, hardFail |-> 0]
Inc(m, f) == [m EXCEPT ![f] = @ + 1]

(***************************************************************************)
(* Client.PostOne                                                          *)
(***************************************************************************)
\* one attempt too many: the retries counted after the first attempt twice
Attempts_OneMore(r) == r + 2

\* the first attempt counted as a retry
Attempts_OneLess(r) == r

\* for attempt := range c.retries + 1
Attempts(r) == r + 1

PostRateWait_IgnoresCancellation ==
    /\ UNCHANGED <<ctrlVars, callVars>>
    /\ postPc = "ratelimit"
    /\ postPc' = "loop"
    /\ UNCHANGED postResult
    /\ UNCHANGED <<retries, useApp, badURL, cancelled, attempt, delay, jitter,
                   lastErr, httpCalls, sleeps, postMetrics>>

\* c.rateLimiter.Wait(ctx): a token is granted, or the wait fails because
\* the context is cancelled
PostRateWait ==
    /\ UNCHANGED <<ctrlVars, callVars>>
    /\ postPc = "ratelimit"
    /\ \/ /\ ~cancelled
          /\ postPc' = "loop"
          /\ UNCHANGED postResult
       \/ /\ cancelled
          /\ postPc' = "done"
          /\ postResult' = Returned("rate limiter wait failed", NoErr)
    /\ UNCHANGED <<retries, useApp, badURL, cancelled, attempt, delay, jitter,
                   lastErr, httpCalls, sleeps, postMetrics>>

\* for attempt := range c.retries + 1: the loop is over, all retries are
\* exhausted
PostExhausted ==
    /\ UNCHANGED <<ctrlVars, callVars>>
    /\ postPc = "loop"
    /\ attempt >= Attempts(retries)
    /\ postPc' = "done"
    /\ postResult' = Returned("all retries exhausted", lastErr)
    /\ postMetrics' = Inc(postMetrics, "hardFail")
    /\ UNCHANGED <<retries, useApp, badURL, cancelled, attempt, delay, jitter,
                   lastErr, httpCalls, sleeps>>

\* if attempt > 0 { backoff, jitter, delay; select {...} }: the sleep starts
PostBackoff ==
    /\ UNCHANGED <<ctrlVars, callVars>>
    /\ postPc = "loop"
    /\ attempt < Attempts(retries)
    /\ IF attempt > 0
       THEN \E j \in 0 .. (JitterN - 1) :
               /\ jitter' = j
               /\ delay' = Delay(attempt, j)
               /\ sleeps' = sleeps + 1
               /\ postPc' = "sleep"
       ELSE /\ postPc' = "send"
            /\ UNCHANGED <<jitter, delay, sleeps>>
    /\ UNCHANGED <<retries, useApp, badURL, cancelled, attempt, lastErr,
                   httpCalls, postResult, postMetrics>>

\* case <-time.After(delay): the timer fires.  A goroutine blocked in the
\* select is woken by the first channel that becomes ready, so once the
\* context is cancelled the timer can only win when it was ready as the
\* select was entered, which takes a delay that is not positive
PostSleepDone ==
    /\ UNCHANGED <<ctrlVars, callVars>>
    /\ postPc = "sleep"
    /\ ~cancelled \/ delay <= 0
    /\ postPc' = "send"
    /\ UNCHANGED <<retries, useApp, badURL, cancelled, attempt, delay, jitter,
                   lastErr, httpCalls, sleeps, postResult, postMetrics>>

PostSleepCancelled_FinishesTheSleep ==
    /\ UNCHANGED <<ctrlVars, callVars>>
    /\ postPc = "sleep"
    /\ cancelled
    /\ postPc' = "send"
    /\ UNCHANGED postResult
    /\ UNCHANGED <<retries, useApp, badURL, cancelled, attempt, delay, jitter,
                   lastErr, httpCalls, sleeps, postMetrics>>

\* case <-ctx.Done()
PostSleepCancelled ==
    /\ UNCHANGED <<ctrlVars, callVars>>
    /\ postPc = "sleep"
    /\ cancelled
    /\ postPc' = "done"
    /\ postResult' = Returned("context cancelled during retry backoff", NoErr)
    /\ UNCHANGED <<retries, useApp, badURL, cancelled, attempt, delay, jitter,
                   lastErr, httpCalls, sleeps, postMetrics>>

\* http.NewRequestWithContext fails
PostRequestFails ==
    /\ UNCHANGED <<ctrlVars, callVars>>
    /\ postPc = "send"
    /\ badURL
    /\ postPc' = "done"
    /\ postResult' = Returned("failed to create request", NoErr)
    /\ UNCHANGED <<retries, useApp, badURL, cancelled, attempt, delay, jitter,
                   lastErr, httpCalls, sleeps, postMetrics>>

\* c.transport.Token(ctx) fails
PostTokenFails ==
    /\ UNCHANGED <<ctrlVars, callVars>>
    /\ postPc = "send"
    /\ ~badURL
    /\ useApp
    /\ postPc' = "done"
    /\ postResult' = Returned("failed to get access token", NoErr)
    /\ UNCHANGED <<retries, useApp, badURL, cancelled, attempt, delay, jitter,
                   lastErr, httpCalls, sleeps, postMetrics>>

\* the outcome of one c.httpClient.Do with response r, as the rest of the
\* loop body classifies it
AttemptOutcome(r) ==
    IF r = NetErr THEN "soft"
    ELSE IF Is2xx(r) THEN "ok"
    ELSE IF IsClientStatus(r) THEN "client"
    ELSE "soft"

AttemptErr(r) == IF r = NetErr THEN RequestErr ELSE StatusErr(r)

\* resp, err := c.httpClient.Do(req) and the classification of its result
PostAttempt ==
    /\ UNCHANGED <<ctrlVars, callVars>>
    /\ postPc = "send"
    /\ ~badURL
    /\ \E r \in Responses :
          \* a request on a cancelled context fails in Do
          /\ cancelled => r = NetErr
          /\ httpCalls' = httpCalls + 1
          /\ LET out == AttemptOutcome(r)
             IN  CASE out = "ok" ->
                        /\ postPc' = "done"
                        /\ postResult' = Returned("nil", NoErr)
                        /\ postMetrics' = Inc(postMetrics, "ok")
                        /\ UNCHANGED <<attempt, lastErr>>
                   [] out = "client" ->
                        /\ postPc' = "done"
                        /\ lastErr' = AttemptErr(r)
                        /\ postResult' = Returned("ClientError", AttemptErr(r))
                        /\ postMetrics' = Inc(postMetrics, "clientError")
                        /\ UNCHANGED attempt
                   [] OTHER ->
                        /\ postPc' = "loop"
                        /\ attempt' = attempt + 1
                        /\ lastErr' = AttemptErr(r)
                        /\ postMetrics' = Inc(postMetrics, "softFail")
                        /\ UNCHANGED postResult
    \* delay and jitter are local to the loop body
    /\ delay' = 0
    /\ jitter' = 0
    /\ UNCHANGED <<retries, useApp, badURL, cancelled, sleeps>>

\* the process-wide cancellation signal: cancel()
Cancel ==
    /\ ~cancelled
    /\ cancelled' = TRUE
    /\ UNCHANGED <<ctrlVars, callVars>>
    /\ UNCHANGED <<retries, useApp, badURL, postPc, attempt, delay, jitter,
                   lastErr, httpCalls, sleeps, postResult, postMetrics>>


(***************************************************************************)
(* Strings.  A string is a sequence of one-character strings, so that      *)
(* concatenation, search and slicing are computed as the code does.        *)
(***************************************************************************)
EmptyStr == <<>>

\* strings.LastIndex(s, c) for a one-character c, 0-based, -1 when absent
LastIndex(s, c) ==
    LET hits == {i \in 1 .. Len(s) : s[i] = c}
    IN  IF hits = {} THEN -1
        ELSE (CHOOSE i \in hits : \A j \in hits : j <= i) - 1

\* s[:n]
Prefix(s, n) == SubSeq(s, 1, n)
\* s[n:]
Suffix(s, n) == SubSeq(s, n + 1, Len(s))

Sha256Prefix == <<"s", "h", "a", "2", "5", "6", ":">>
\* len("sha256:")
Sha256PrefixLen == 7

\* image.ExtractDigest
ExtractDigest(imageID) ==
    IF imageID = EmptyStr THEN EmptyStr
    ELSE LET n == Len(imageID)
             \* for i := 0; i < len(imageID)-7; i++
             hits == {i \in 0 .. (n - Sha256PrefixLen - 1) :
                         SubSeq(imageID, i + 1, i + Sha256PrefixLen)
                            = Sha256Prefix}
         IN  IF hits = {} THEN imageID
             ELSE LET i == CHOOSE h \in hits : \A g \in hits : h <= g
                      remaining == Suffix(imageID, i)
                      seps == {j \in 1 .. Len(remaining) :
                                  remaining[j] \in {"@", " "}}
                      end == IF seps = {} THEN Len(remaining)
                             ELSE (CHOOSE j \in seps :
                                      \A l \in seps : j <= l) - 1
                  IN  Prefix(remaining, end)

(***************************************************************************)
(* Pods, as far as the controller reads them.                              *)
(***************************************************************************)
EventCreated == "CREATED"
EventDeleted == "DELETED"
StatusDeployed == "deployed"
StatusDecommissioned == "decommissioned"
PodPending == "Pending"
PodRunning == "Running"

Namespace == <<"p">>
RsWeb == <<"w", "-", "a">>
DeploymentWeb == <<"w">>
ContainerApp == <<"a">>
ImageID1 == <<"x", "@">> \o Sha256Prefix \o <<"1">>
ImageID2 == <<"x", "@">> \o Sha256Prefix \o <<"2">>

ReplicaSetOwner(name) == [Kind |-> "ReplicaSet", Name |-> name]

\* the pods the cluster creates: metadata.ownerReferences, spec.containers,
\* spec.initContainers, status.containerStatuses, status.initContainerStatuses
PodShape(owners, imageID) ==
    [OwnerReferences |-> owners,
     Containers |-> <<[Name |-> ContainerApp]>>,
     InitContainers |-> <<>>,
     ContainerStatuses |-> <<[Name |-> ContainerApp, ImageID |-> imageID]>>,
     InitContainerStatuses |-> <<>>]

PodShapes ==
    { PodShape(<<ReplicaSetOwner(RsWeb)>>, ImageID1),
      PodShape(<<ReplicaSetOwner(RsWeb)>>, ImageID2),
      PodShape(<<>>, ImageID1) }

\* pod names are generated and never used again: pod i gets key i
Keys == 1 .. MaxPods
DeploymentNames == {DeploymentWeb}

NoPod ==
    [Key |-> 0, Namespace |-> EmptyStr, Phase |-> "",
     Deleting |-> FALSE,
     OwnerReferences |-> <<>>, Containers |-> <<>>, InitContainers |-> <<>>,
     ContainerStatuses |-> <<>>, InitContainerStatuses |-> <<>>]

NewPod(key, shape, phase) ==
    [Key |-> key, Namespace |-> Namespace, Phase |-> phase,
     Deleting |-> FALSE,
     OwnerReferences |-> shape.OwnerReferences,
     Containers |-> shape.Containers,
     InitContainers |-> shape.InitContainers,
     ContainerStatuses |-> shape.ContainerStatuses,
     InitContainerStatuses |-> shape.InitContainerStatuses]

getDeploymentName_CutAtFirstDash(p) ==
    LET rs == {i \in 1 .. Len(p.OwnerReferences) :
                  p.OwnerReferences[i].Kind = "ReplicaSet"}
    IN  IF rs = {} THEN EmptyStr
        ELSE LET i == CHOOSE h \in rs : \A g \in rs : h <= g
                 rsName == p.OwnerReferences[i].Name
                 dashes == {j \in 1 .. Len(rsName) : rsName[j] = "-"}
                 firstDash == IF dashes = {} THEN 0
                              ELSE (CHOOSE j \in dashes :
                                       \A k \in dashes : j <= k) - 1
             IN  IF firstDash > 0 THEN Prefix(rsName, firstDash) ELSE rsName

\* getDeploymentName
getDeploymentName(p) ==
    LET rs == {i \in 1 .. Len(p.OwnerReferences) :
                  p.OwnerReferences[i].Kind = "ReplicaSet"}
    IN  IF rs = {} THEN EmptyStr
        ELSE LET i == CHOOSE h \in rs : \A g \in rs : h <= g
                 rsName == p.OwnerReferences[i].Name
                 lastDash == LastIndex(rsName, "-")
             IN  IF lastDash > 0 THEN Prefix(rsName, lastDash) ELSE rsName

\* the template: a sequence of pieces, each a placeholder or literal text
TmplNS == [ph |-> "{{namespace}}", text |-> EmptyStr]
TmplDN == [ph |-> "{{deploymentName}}", text |-> EmptyStr]
TmplCN == [ph |-> "{{containerName}}", text |-> EmptyStr]
Literal(text) == [ph |-> "", text |-> text]
\* defaultTemplate of main
DefaultTemplate == <<TmplNS, Literal(<<"/">>), TmplDN, Literal(<<"/">>), TmplCN>>

\* strings.ReplaceAll(res, placeholder, value)
ReplaceAll(tmpl, placeholder, value) ==
    [i \in 1 .. Len(tmpl) |->
        IF tmpl[i] = placeholder THEN Literal(value) ELSE tmpl[i]]

RECURSIVE Flatten(_)
Flatten(tmpl) ==
    IF tmpl = <<>> THEN EmptyStr
    ELSE (IF Head(tmpl).ph = "" THEN Head(tmpl).text
          ELSE <<Head(tmpl).ph>>) \o Flatten(Tail(tmpl))

\* getARDeploymentName
getARDeploymentName(p, c, tmpl) ==
    LET res1 == ReplaceAll(tmpl, TmplNS, p.Namespace)
        res2 == ReplaceAll(res1, TmplDN, getDeploymentName(p))
        res3 == ReplaceAll(res2, TmplCN, c.Name)
    IN  Flatten(res3)

\* first entry of a status list with the given container name, 0 if none
StatusIndex(statuses, name) ==
    LET hits == {i \in 1 .. Len(statuses) : statuses[i].Name = name}
    IN  IF hits = {} THEN 0 ELSE CHOOSE h \in hits : \A g \in hits : h <= g

\* getContainerDigest
getContainerDigest(p, containerName) ==
    LET i == StatusIndex(p.ContainerStatuses, containerName)
        j == StatusIndex(p.InitContainerStatuses, containerName)
    IN  IF i # 0 THEN ExtractDigest(p.ContainerStatuses[i].ImageID)
        ELSE IF j # 0 THEN ExtractDigest(p.InitContainerStatuses[j].ImageID)
        ELSE EmptyStr

\* getCacheKey
getCacheKey(dn, digest) == dn \o <<"|", "|">> \o digest

(***************************************************************************)
(* Work items and the rate limited work queue                              *)
(* (workqueue.NewTypedRateLimitingQueue).                                  *)
(***************************************************************************)
NoEvent == [Key |-> 0, EventType |-> "", DeletedPod |-> NoPod]
CreatedEvent(key) == [Key |-> key, EventType |-> EventCreated, DeletedPod |-> NoPod]
DeletedEvent(key, p) == [Key |-> key, EventType |-> EventDeleted, DeletedPod |-> p]

QueueAdd_AddsTwice(item) ==
    IF shuttingDown \/ item \in dirty
    THEN UNCHANGED <<queue, dirty>>
    ELSE /\ dirty' = dirty \cup {item}
         /\ queue' = IF item \in processing THEN queue
                     ELSE Append(Append(queue, item), item)

QueueAdd_QueuesWhileProcessing(item) ==
    IF shuttingDown \/ item \in dirty
    THEN UNCHANGED <<queue, dirty>>
    ELSE /\ dirty' = dirty \cup {item}
         /\ queue' = Append(queue, item)

\* queue.Add(item), on the values of queue, dirty and processing
QueueAdd(item) ==
    IF shuttingDown \/ item \in dirty
    THEN UNCHANGED <<queue, dirty>>
    ELSE /\ dirty' = dirty \cup {item}
         /\ queue' = IF item \in processing THEN queue ELSE Append(queue, item)

\* the rate limiter's count of requeues of an item
NumRequeues(item) == IF item \in DOMAIN failures THEN failures[item] ELSE 0

(***************************************************************************)
(* Notifications of the pod informer (New: AddFunc, UpdateFunc,            *)
(* DeleteFunc).  A notification is delivered together with the change of   *)
(* the informer's cache.                                                   *)
(***************************************************************************)
\* the handlers proper: what each does with the objects it is handed
OnAdd(p) ==
    IF p.Phase = PodRunning /\ getDeploymentName(p) # EmptyStr
    THEN QueueAdd(CreatedEvent(p.Key))
    ELSE UNCHANGED <<queue, dirty>>

OnUpdate_WheneverRunning(oldPod, newPod) ==
    IF newPod.Deleting \/ getDeploymentName(newPod) = EmptyStr
    THEN UNCHANGED <<queue, dirty>>
    ELSE IF newPod.Phase = PodRunning
         THEN QueueAdd(CreatedEvent(newPod.Key))
         ELSE UNCHANGED <<queue, dirty>>

OnUpdate(oldPod, newPod) ==
    IF newPod.Deleting \/ getDeploymentName(newPod) = EmptyStr
    THEN UNCHANGED <<queue, dirty>>
    ELSE IF oldPod.Phase # PodRunning /\ newPod.Phase = PodRunning
         THEN QueueAdd(CreatedEvent(newPod.Key))
         ELSE UNCHANGED <<queue, dirty>>

OnDelete(p) ==
    IF getDeploymentName(p) = EmptyStr
    THEN UNCHANGED <<queue, dirty>>
    ELSE QueueAdd(DeletedEvent(p.Key, p))

AddFunc(key, shape, phase) ==
    /\ created < podLimit
    /\ key = created + 1
    \* the cluster starts one pod at a time
    /\ \A k \in Keys : indexer[k] # NoPod => indexer[k].Phase = PodRunning
    \* the two images are interchangeable: the first pod runs image 1
    /\ created = 0 => shape.ContainerStatuses[1].ImageID = ImageID1
    /\ LET p == NewPod(key, shape, phase)
       IN  /\ indexer' = [indexer EXCEPT ![key] = p]
           /\ created' = created + 1
           /\ OnAdd(p)
    /\ UNCHANGED <<deployments, podLimit, cfgVars, callVars, processing, waiting,
                   failures, shuttingDown, observedDeployments, workerVars,
                   deliveryVars, postVars>>

UpdateFunc(key, phase) ==
    /\ indexer[key] # NoPod
    /\ LET oldPod == indexer[key]
           newPod == [oldPod EXCEPT !.Phase = phase]
       IN  \* a pod does not leave the Running phase for Pending
           /\ oldPod.Phase = PodRunning => phase = PodRunning
           /\ indexer' = [indexer EXCEPT ![key] = newPod]
           /\ OnUpdate(oldPod, newPod)
    /\ UNCHANGED <<deployments, created, podLimit, cfgVars, callVars, processing,
                   waiting, failures, shuttingDown, observedDeployments,
                   workerVars, deliveryVars, postVars>>

DeleteFunc(key) ==
    /\ indexer[key] # NoPod
    /\ LET p == indexer[key]
       IN  /\ indexer' = [indexer EXCEPT ![key] = NoPod]
           /\ OnDelete(p)
    /\ UNCHANGED <<deployments, created, podLimit, cfgVars, callVars, processing,
                   waiting, failures, shuttingDown, observedDeployments,
                   workerVars, deliveryVars, postVars>>

\* the Deployment object is deleted from, or created in, the API server
DeploymentDeleted(name) ==
    /\ name \in deployments
    /\ deployments' = deployments \ {name}
    /\ UNCHANGED <<indexer, created, podLimit, cfgVars, callVars, queueVars,
                   observedDeployments, workerVars, deliveryVars, postVars>>

DeploymentCreated(name) ==
    /\ name \notin deployments
    /\ deployments' = deployments \cup {name}
    /\ UNCHANGED <<indexer, created, podLimit, cfgVars, callVars, queueVars,
                   observedDeployments, workerVars, deliveryVars, postVars>>

(***************************************************************************)
(* PostOne as the controller sees it: the result of a whole call.  The     *)
(* result is computed by running the attempt loop of PostOne over a        *)
(* sequence of responses, one per attempt.                                 *)
(***************************************************************************)
\* one response of each class AttemptOutcome tells apart
ResponseClasses == {NetErr, 200, 404, 429, 500}

RECURSIVE PostOneRun(_, _, _)
PostOneRun(resps, k, r) ==
    IF k >= Attempts(r) THEN "all retries exhausted"
    ELSE LET out == AttemptOutcome(resps[k + 1])
         IN  IF out = "ok" THEN "nil"
             ELSE IF out = "client" THEN "ClientError"
             ELSE PostOneRun(resps, k + 1, r)

\* the results PostOne can return with the retries NewClient sets
PostOneResults ==
    {PostOneRun(resps, 0, DefaultRetries) :
        resps \in [1 .. Attempts(DefaultRetries) -> ResponseClasses]}

\* errors.As(err, &clientErr)
IsClientError(result) == result = "ClientError"

(***************************************************************************)
(* Controller.processNextItem, processEvent and recordContainer, one       *)
(* action per access to shared state.                                      *)
(***************************************************************************)
Started(w) == w \in 1 .. workers

\* event, shutdown := c.workqueue.Get(), an item is available
Get(w) ==
    /\ Started(w)
    /\ pc[w] = "Get"
    /\ queue # <<>>
    /\ LET item == Head(queue)
       IN  /\ queue' = Tail(queue)
           /\ processing' = processing \cup {item}
           /\ dirty' = dirty \ {item}
           /\ event' = [event EXCEPT ![w] = item]
    /\ pc' = [pc EXCEPT ![w] = "processEvent"]
    /\ UNCHANGED <<clusterVars, cfgVars, callVars, waiting, failures, shuttingDown,
                   observedDeployments, pod, todo, exists, procErr,
                   passPosts, deliveryVars, postVars>>

\* what c.clientset.AppsV1().Deployments(namespace).Get can answer
ProbeAnswers(name) ==
    IF cancelled THEN {"error"}
    ELSE {IF name \in deployments THEN "found" ELSE "notfound", "error"}

deploymentExists_OnlyWhenFound(answer) == answer = "found"

\* deploymentExists, on the answer of the API server
deploymentExists(answer) == answer # "notfound"

ContainersOf_RegularOnly(p) == p.Containers

\* the containers processEvent records: pod.Spec.Containers, then
\* pod.Spec.InitContainers
ContainersOf(p) == p.Containers \o p.InitContainers

\* processEvent up to the first recordContainer call
ProcessEvent(w) ==
    /\ pc[w] = "processEvent"
    /\ IF event[w].EventType = EventDeleted
       THEN LET p == event[w].DeletedPod
                deploymentName == getDeploymentName(p)
            IN  IF p = NoPod
                THEN /\ pc' = [pc EXCEPT ![w] = "return"]
                     /\ UNCHANGED <<pod, todo, exists>>
                ELSE IF deploymentName # EmptyStr
                     THEN \E answer \in ProbeAnswers(deploymentName) :
                             /\ exists' = [exists EXCEPT ![w] = answer]
                             /\ IF deploymentExists(answer)
                                THEN /\ pc' = [pc EXCEPT ![w] = "return"]
                                     /\ UNCHANGED <<pod, todo>>
                                ELSE /\ pod' = [pod EXCEPT ![w] = p]
                                     /\ todo' = [todo EXCEPT ![w] = ContainersOf(p)]
                                     /\ pc' = [pc EXCEPT ![w] =
                                           IF ContainersOf(p) = <<>> THEN "return"
                                           ELSE "recordContainer"]
                     ELSE /\ pod' = [pod EXCEPT ![w] = p]
                          /\ todo' = [todo EXCEPT ![w] = ContainersOf(p)]
                          /\ pc' = [pc EXCEPT ![w] =
                                IF ContainersOf(p) = <<>> THEN "return"
                                ELSE "recordContainer"]
                          /\ UNCHANGED exists
       ELSE LET p == indexer[event[w].Key]
            IN  IF p = NoPod
                THEN /\ pc' = [pc EXCEPT ![w] = "return"]
                     /\ UNCHANGED <<pod, todo, exists>>
                ELSE /\ pod' = [pod EXCEPT ![w] = p]
                     /\ todo' = [todo EXCEPT ![w] = ContainersOf(p)]
                     /\ pc' = [pc EXCEPT ![w] =
                           IF ContainersOf(p) = <<>> THEN "return"
                           ELSE "recordContainer"]
                     /\ UNCHANGED exists
    /\ UNCHANGED <<clusterVars, cfgVars, callVars, queueVars, observedDeployments,
                   event, procErr, passPosts, deliveryVars, postVars>>

ProcessEventLookupFails_ReturnsTheError(w) ==
    /\ pc[w] = "processEvent"
    /\ event[w].EventType = EventCreated
    /\ pc' = [pc EXCEPT ![w] = "return"]
    /\ procErr' = [procErr EXCEPT ![w] = TRUE]
    /\ UNCHANGED <<clusterVars, cfgVars, callVars, queueVars, observedDeployments,
                   event, pod, todo, exists, passPosts, deliveryVars,
                   postVars>>

\* processEvent for a Created item when GetIndexer().GetByKey returns an
\* error: the error is logged and processEvent returns nil
ProcessEventLookupFails(w) ==
    /\ pc[w] = "processEvent"
    /\ event[w].EventType = EventCreated
    /\ pc' = [pc EXCEPT ![w] = "return"]
    /\ UNCHANGED <<clusterVars, cfgVars, callVars, queueVars, observedDeployments,
                   event, pod, todo, exists, procErr, passPosts,
                   deliveryVars, postVars>>

\* status of processEvent
StatusOf(ev) ==
    IF ev.EventType = EventDeleted THEN StatusDecommissioned ELSE StatusDeployed

\* the deployment name and the digest recordContainer derives for the
\* container it is called with
CurrentDN(w) == getARDeploymentName(pod[w], Head(todo[w]), template)
CurrentDigest(w) == getContainerDigest(pod[w], Head(todo[w]).Name)
CurrentKey(w) == getCacheKey(CurrentDN(w), CurrentDigest(w))

\* recordContainer has returned: the loops of processEvent go on
NextContainer(w) ==
    /\ todo' = [todo EXCEPT ![w] = Tail(todo[w])]
    /\ pc' = [pc EXCEPT ![w] =
          IF Tail(todo[w]) = <<>> THEN "return" ELSE "recordContainer"]

\* one decision of recordContainer: the identity and status of the record
\* and what became of it ("skip": no POST; else the class of PostOne's result)
Record(dn, digest, status, outcome) ==
    [dn |-> dn, digest |-> digest, status |-> status, outcome |-> outcome]

Remember(h, entry) == Append(h, entry)

\* number of PostOne calls that have failed so far
NumFaults ==
    Cardinality({i \in 1 .. Len(hist) :
                    hist[i].outcome \in {"client_error", "error"}})

\* the history has room for the decision of one more recordContainer call,
\* counting the calls that are inside PostOne
HistRoom ==
    Len(hist) + Cardinality({v \in 1 .. DefaultWorkers : pc[v] = "PostOne"})
        < MaxHist

SkipsPost_DeployedAlwaysPosts(status, cached) ==
    IF status = StatusDeployed THEN FALSE ELSE ~cached

SkipsPost_DecommissionedAlwaysPosts(status, cached) ==
    IF status = StatusDeployed THEN cached ELSE FALSE

\* the dedup gate of recordContainer: TRUE when the call returns nil
\* without a POST
SkipsPost(status, cached) ==
    IF status = StatusDeployed THEN cached ELSE ~cached

RecordContainer_PostsWithoutDigest(w) ==
    /\ pc[w] = "recordContainer"
    /\ HistRoom
    /\ LET dn == CurrentDN(w)
           digest == CurrentDigest(w)
           cacheKey == getCacheKey(dn, digest)
           status == StatusOf(event[w])
       IN  IF SkipsPost(status, cacheKey \in observedDeployments)
           THEN /\ NextContainer(w)
                /\ hist' = Remember(hist,
                                    Record(dn, digest, status, "skip"))
           ELSE /\ pc' = [pc EXCEPT ![w] = "PostOne"]
                /\ UNCHANGED <<todo, hist>>
    /\ UNCHANGED <<clusterVars, cfgVars, callVars, queueVars, observedDeployments,
                   event, pod, exists, procErr, passPosts, postVars>>

\* recordContainer up to the call of PostOne
RecordContainer(w) ==
    /\ pc[w] = "recordContainer"
    /\ HistRoom
    /\ LET dn == CurrentDN(w)
           digest == CurrentDigest(w)
           cacheKey == getCacheKey(dn, digest)
           status == StatusOf(event[w])
       IN  IF dn = EmptyStr \/ digest = EmptyStr
           THEN /\ NextContainer(w)
                /\ UNCHANGED hist
           ELSE IF SkipsPost(status, cacheKey \in observedDeployments)
                THEN /\ NextContainer(w)
                     /\ hist' = Remember(hist,
                                         Record(dn, digest, status, "skip"))
                ELSE /\ pc' = [pc EXCEPT ![w] = "PostOne"]
                     /\ UNCHANGED <<todo, hist>>
    /\ UNCHANGED <<clusterVars, cfgVars, callVars, queueVars, observedDeployments,
                   event, pod, exists, procErr, passPosts, postVars>>

\* recordContainer after c.apiClient.PostOne has returned result: nil goes
\* on to the cache update, a ClientError is logged and dropped, any other
\* error is returned to processEvent
AfterPostOne(w, result) ==
    LET status == StatusOf(event[w])
        outcome == IF result = "nil" THEN "ok"
                   ELSE IF IsClientError(result) THEN "client_error"
                   ELSE "error"
    IN  /\ passPosts' = [passPosts EXCEPT ![w] = @ + 1]
        /\ hist' = Remember(hist, Record(CurrentDN(w), CurrentDigest(w),
                                         status, outcome))
        /\ IF result = "nil"
           THEN /\ pc' = [pc EXCEPT ![w] = "updateCache"]
                /\ UNCHANGED <<todo, procErr>>
           ELSE /\ procErr' = [procErr EXCEPT ![w] =
                      IF IsClientError(result) THEN @ ELSE TRUE]
                /\ NextContainer(w)

PostOne_CachesFailedPosts(w) ==
    /\ pc[w] = "PostOne"
    /\ \E result \in (IF cancelled THEN {"rate limiter wait failed"}
                      ELSE PostOneResults) :
          /\ result # "nil" /\ ~cancelled => NumFaults < MaxFaults
          /\ passPosts' = [passPosts EXCEPT ![w] = @ + 1]
          /\ hist' = Remember(hist, Record(CurrentDN(w), CurrentDigest(w),
                                           StatusOf(event[w]),
                                           IF result = "nil" THEN "ok"
                                           ELSE IF IsClientError(result)
                                                THEN "client_error"
                                                ELSE "error"))
          /\ pc' = [pc EXCEPT ![w] = "updateCache"]
          /\ procErr' = [procErr EXCEPT ![w] =
                IF result = "nil" \/ IsClientError(result) THEN @ ELSE TRUE]
          /\ UNCHANGED todo
    /\ UNCHANGED <<clusterVars, cfgVars, callVars, queueVars, observedDeployments,
                   event, pod, exists, postVars>>

PostOne_ClientErrorIsAnError(w) ==
    /\ pc[w] = "PostOne"
    /\ \E result \in (IF cancelled THEN {"rate limiter wait failed"}
                      ELSE PostOneResults) :
          LET status == StatusOf(event[w])
              outcome == IF result = "nil" THEN "ok"
                         ELSE IF IsClientError(result) THEN "client_error"
                         ELSE "error"
          IN  /\ passPosts' = [passPosts EXCEPT ![w] = @ + 1]
              /\ result # "nil" /\ ~cancelled => NumFaults < MaxFaults
              /\ hist' = Remember(hist, Record(CurrentDN(w), CurrentDigest(w),
                                               status, outcome))
              /\ IF result = "nil"
                 THEN /\ pc' = [pc EXCEPT ![w] = "updateCache"]
                      /\ UNCHANGED <<todo, procErr>>
                 ELSE /\ procErr' = [procErr EXCEPT ![w] = TRUE]
                      /\ NextContainer(w)
    /\ UNCHANGED <<clusterVars, cfgVars, callVars, queueVars, observedDeployments,
                   event, pod, exists, postVars>>

\* c.apiClient.PostOne(ctx, record) and the handling of its result
PostOne(w) ==
    /\ pc[w] = "PostOne"
    /\ \E result \in (IF cancelled THEN {"rate limiter wait failed"}
                      ELSE PostOneResults) :
          /\ result # "nil" /\ ~cancelled => NumFaults < MaxFaults
          /\ AfterPostOne(w, result)
    /\ UNCHANGED <<clusterVars, cfgVars, callVars, queueVars, observedDeployments,
                   event, pod, exists, postVars>>

CacheAfter_KeepsDecommissioned(cache, status, cacheKey) ==
    IF status = StatusDeployed THEN cache \cup {cacheKey} ELSE cache

CacheAfter_DeletesOnDeployed(cache, status, cacheKey) == cache \ {cacheKey}

\* Update cache after successful post: Store on deployed, Delete on
\* decommissioned
CacheAfter(cache, status, cacheKey) ==
    IF status = StatusDeployed THEN cache \cup {cacheKey}
    ELSE cache \ {cacheKey}

UpdateCache(w) ==
    /\ pc[w] = "updateCache"
    /\ observedDeployments' =
          CacheAfter(observedDeployments, StatusOf(event[w]), CurrentKey(w))
    /\ NextContainer(w)
    /\ UNCHANGED <<clusterVars, cfgVars, callVars, queueVars, event, pod, exists,
                   procErr, passPosts, deliveryVars, postVars>>

Return_RequeuesAlways(w) ==
    /\ pc[w] = "return"
    /\ failures' = [i \in DOMAIN failures \cup {event[w]} |->
          IF i = event[w]
          THEN NumRequeues(i) + 1
          ELSE failures[i]]
    /\ waiting' = IF shuttingDown THEN waiting
                  ELSE waiting \cup {event[w]}
    /\ pc' = [pc EXCEPT ![w] = "Done"]
    /\ UNCHANGED <<clusterVars, cfgVars, callVars, queue, dirty, processing,
                   shuttingDown, observedDeployments, event, pod, todo,
                   exists, procErr, passPosts, deliveryVars, postVars>>

Return_NeverForgets(w) ==
    /\ pc[w] = "return"
    /\ IF ~procErr[w]
       THEN UNCHANGED <<failures, waiting>>
       ELSE /\ failures' = [i \in DOMAIN failures \cup {event[w]} |->
                  IF i = event[w]
                  THEN NumRequeues(i) + 1
                  ELSE failures[i]]
            /\ waiting' = IF shuttingDown THEN waiting
                          ELSE waiting \cup {event[w]}
    /\ pc' = [pc EXCEPT ![w] = "Done"]
    /\ UNCHANGED <<clusterVars, cfgVars, callVars, queue, dirty, processing,
                   shuttingDown, observedDeployments, event, pod, todo,
                   exists, procErr, passPosts, deliveryVars, postVars>>

Return_ForgetsOnError(w) ==
    /\ pc[w] = "return"
    /\ failures' = [i \in DOMAIN failures \ {event[w]} |-> failures[i]]
    /\ UNCHANGED waiting
    /\ pc' = [pc EXCEPT ![w] = "Done"]
    /\ UNCHANGED <<clusterVars, cfgVars, callVars, queue, dirty, processing,
                   shuttingDown, observedDeployments, event, pod, todo,
                   exists, procErr, passPosts, deliveryVars, postVars>>

\* processEvent has returned: c.workqueue.Forget(event) on nil,
\* c.workqueue.AddRateLimited(event) on an error
Return(w) ==
    /\ pc[w] = "return"
    /\ IF ~procErr[w]
       THEN /\ failures' = [i \in DOMAIN failures \ {event[w]} |-> failures[i]]
            /\ UNCHANGED waiting
       ELSE /\ failures' = [i \in DOMAIN failures \cup {event[w]} |->
                  IF i = event[w]
                  THEN NumRequeues(i) + 1
                  ELSE failures[i]]
            /\ waiting' = IF shuttingDown THEN waiting
                          ELSE waiting \cup {event[w]}
    /\ pc' = [pc EXCEPT ![w] = "Done"]
    /\ UNCHANGED <<clusterVars, cfgVars, callVars, queue, dirty, processing,
                   shuttingDown, observedDeployments, event, pod, todo,
                   exists, procErr, passPosts, deliveryVars, postVars>>

\* defer c.workqueue.Done(event)
Done(w) ==
    /\ pc[w] = "Done"
    /\ processing' = processing \ {event[w]}
    /\ queue' = IF event[w] \in dirty THEN Append(queue, event[w]) ELSE queue
    /\ pc' = [pc EXCEPT ![w] = "Get"]
    \* the locals of processNextItem and processEvent are gone
    /\ event' = [event EXCEPT ![w] = NoEvent]
    /\ pod' = [pod EXCEPT ![w] = NoPod]
    /\ exists' = [exists EXCEPT ![w] = "none"]
    /\ procErr' = [procErr EXCEPT ![w] = FALSE]
    /\ passPosts' = [passPosts EXCEPT ![w] = 0]
    /\ UNCHANGED <<clusterVars, cfgVars, callVars, dirty, waiting, failures,
                   shuttingDown, observedDeployments, todo, deliveryVars,
                   postVars>>

\* the delay of an AddRateLimited is over: the queue adds the item
WaitingReady(item) ==
    /\ item \in waiting
    /\ waiting' = waiting \ {item}
    /\ QueueAdd(item)
    /\ UNCHANGED <<clusterVars, cfgVars, callVars, processing, failures, shuttingDown,
                   observedDeployments, workerVars, deliveryVars, postVars>>

(***************************************************************************)
(* The controller: New, then Run with n workers, in a cluster that creates  *)
(* up to limit pods.                                                       *)
(***************************************************************************)
\* no function of the packages is called on its own
NoCall == arg = <<>> /\ ret = <<>>

\* controller.New(clientset, namespace, &cntrlCfg) with cntrlCfg.Template
\* tmpl, then Run(ctx, n)
NewController(n, limit, tmpl) ==
    /\ template = tmpl
    /\ indexer = [k \in Keys |-> NoPod]
    /\ deployments = DeploymentNames
    /\ created = 0
    /\ podLimit = limit
    /\ workers = n
    /\ queue = <<>>
    /\ dirty = {}
    /\ processing = {}
    /\ waiting = {}
    /\ failures = <<>>
    /\ shuttingDown = FALSE
    /\ observedDeployments = {}
    /\ pc = [w \in 1 .. DefaultWorkers |-> IF w <= n THEN "Get" ELSE "unused"]
    /\ event = [w \in 1 .. DefaultWorkers |-> NoEvent]
    /\ pod = [w \in 1 .. DefaultWorkers |-> NoPod]
    /\ todo = [w \in 1 .. DefaultWorkers |-> <<>>]
    /\ exists = [w \in 1 .. DefaultWorkers |-> "none"]
    /\ procErr = [w \in 1 .. DefaultWorkers |-> FALSE]
    /\ passPosts = [w \in 1 .. DefaultWorkers |-> 0]
    /\ hist = <<>>

\* main without DN_TEMPLATE: the template is defaultTemplate
ControllerInit(n, limit) ==
    /\ NoCall
    /\ NewController(n, limit, DefaultTemplate)

\* the client of controller.New: NewClient with its default retries
ClientInit ==
    /\ retries = DefaultRetries
    /\ useApp = FALSE
    /\ badURL = FALSE
    /\ cancelled = FALSE
    /\ postPc = "ratelimit"
    /\ attempt = 0
    /\ delay = 0
    /\ jitter = 0
    /\ lastErr = NoErr
    /\ httpCalls = 0
    /\ sleeps = 0
    /\ postResult = Pending
    /\ postMetrics = ZeroMetrics

\* main with its default flags: cntrl.Run(ctx, 2)
Init ==
    /\ ClientInit
    /\ ControllerInit(DefaultWorkers, MaxPods - 1)

Next ==
    \/ \E key \in Keys, shape \in PodShapes, phase \in {PodPending, PodRunning} :
          AddFunc(key, shape, phase)
    \/ \E key \in Keys, phase \in {PodPending, PodRunning} :
          UpdateFunc(key, phase)
    \/ \E key \in Keys : DeleteFunc(key)
    \/ \E name \in DeploymentNames : DeploymentDeleted(name)
    \/ \E name \in DeploymentNames : DeploymentCreated(name)
    \/ \E w \in 1 .. DefaultWorkers : Get(w)
    \/ \E w \in 1 .. DefaultWorkers : ProcessEvent(w)
    \/ \E w \in 1 .. DefaultWorkers : RecordContainer(w)
    \/ \E w \in 1 .. DefaultWorkers : PostOne(w)
    \/ \E w \in 1 .. DefaultWorkers : UpdateCache(w)
    \/ \E w \in 1 .. DefaultWorkers : Return(w)
    \/ \E w \in 1 .. DefaultWorkers : Done(w)
    \/ \E item \in waiting : WaitingReady(item)

Spec == Init /\ [][Next]_vars

\* main with -workers 1: the items are processed one after the other
InitOne ==
    /\ ClientInit
    /\ ControllerInit(MinWorkers, MaxPods)

SpecOne == InitOne /\ [][Next]_vars

\* the pods of the run with fair scheduling
WatchedPods == MaxPods - 2

\* every work item the handlers can make of these pods
AllItems ==
    {CreatedEvent(k) : k \in 1 .. WatchedPods}
       \cup {DeletedEvent(k, NewPod(k, shape, phase)) :
                k \in 1 .. WatchedPods, shape \in PodShapes,
                phase \in {PodPending, PodRunning}}

\* the workers are goroutines that loop over processNextItem, every call
\* they make returns, and the timer of an AddRateLimited fires; the service
\* fails a delivery only a bounded number of times
Fairness ==
    /\ \A w \in 1 .. DefaultWorkers :
          /\ WF_vars(Get(w))
          /\ WF_vars(ProcessEvent(w))
          /\ WF_vars(RecordContainer(w))
          /\ WF_vars(PostOne(w))
          /\ WF_vars(UpdateCache(w))
          /\ WF_vars(Return(w))
          /\ WF_vars(Done(w))
    /\ \A item \in AllItems : WF_vars(WaitingReady(item))

\* main with its default flags, in a cluster of WatchedPods pods
InitFair ==
    /\ ClientInit
    /\ ControllerInit(DefaultWorkers, WatchedPods)

SpecFair == InitFair /\ [][Next]_vars /\ Fairness

(***************************************************************************)
(* One PostOne call of a client built by NewClient with WithRetries(n).    *)
(***************************************************************************)
InitPost ==
    /\ retries \in 0 .. MaxRetries
    /\ useApp \in BOOLEAN
    /\ badURL \in BOOLEAN
    /\ cancelled = FALSE
    /\ postPc = "ratelimit"
    /\ attempt = 0
    /\ delay = 0
    /\ jitter = 0
    /\ lastErr = NoErr
    /\ httpCalls = 0
    /\ sleeps = 0
    /\ postResult = Pending
    /\ postMetrics = ZeroMetrics
    /\ ControllerInit(0, 0)

NextPost ==
    \/ PostRateWait
    \/ PostExhausted
    \/ PostBackoff
    \/ PostSleepDone
    \/ PostSleepCancelled
    \/ PostRequestFails
    \/ PostTokenFails
    \/ PostAttempt
    \/ Cancel

SpecPost == InitPost /\ [][NextPost]_vars

(***************************************************************************)
(* The controller in a cluster where pod names are used again and pods are *)
(* updated freely: every object the informer delivers is a fresh object     *)
(* (Ptr), a pod can leave and re-enter the Running phase, and a pod gets a *)
(* deletion timestamp before it goes.                                      *)
(***************************************************************************)
\* the pod object at address ptr
NewObj(key, ptr, shape, phase) ==
    [Ptr |-> ptr, Key |-> key, Namespace |-> Namespace, Phase |-> phase,
     Deleting |-> FALSE,
     OwnerReferences |-> shape.OwnerReferences,
     Containers |-> shape.Containers,
     InitContainers |-> shape.InitContainers,
     ContainerStatuses |-> shape.ContainerStatuses,
     InitContainerStatuses |-> shape.InitContainerStatuses]

\* the informer stores a new pod and calls AddFunc
PodAdded(key, shape, phase) ==
    /\ created < podLimit
    /\ indexer[key] = NoPod
    \* one pod name, used over and over
    /\ \A k \in Keys : key <= k
    /\ LET p == NewObj(key, created + 1, shape, phase)
       IN  /\ indexer' = [indexer EXCEPT ![key] = p]
           /\ created' = created + 1
           /\ OnAdd(p)
    /\ UNCHANGED <<deployments, podLimit, cfgVars, callVars, processing, waiting,
                   failures, shuttingDown, observedDeployments, workerVars,
                   deliveryVars, postVars>>

\* the informer stores a changed pod, or resyncs, and calls UpdateFunc
PodUpdated(key, phase, deleting) ==
    /\ indexer[key] # NoPod
    /\ LET oldPod == indexer[key]
           newPod == [oldPod EXCEPT !.Phase = phase, !.Deleting = deleting]
       IN  \* a deletion timestamp is never taken back
           /\ oldPod.Deleting => deleting
           /\ indexer' = [indexer EXCEPT ![key] = newPod]
           /\ OnUpdate(oldPod, newPod)
    /\ UNCHANGED <<deployments, created, podLimit, cfgVars, callVars, processing,
                   waiting, failures, shuttingDown, observedDeployments,
                   workerVars, deliveryVars, postVars>>

\* the informer drops a pod and calls DeleteFunc with the object it held
PodDeleted(key) ==
    /\ indexer[key] # NoPod
    /\ LET p == indexer[key]
       IN  /\ indexer' = [indexer EXCEPT ![key] = NoPod]
           /\ OnDelete(p)
    /\ UNCHANGED <<deployments, created, podLimit, cfgVars, callVars, processing,
                   waiting, failures, shuttingDown, observedDeployments,
                   workerVars, deliveryVars, postVars>>

\* the image plays no part in what the handlers and the queue do
PodShapesOneImage ==
    {shape \in PodShapes : shape.ContainerStatuses[1].ImageID = ImageID1}

\* pods of a ReplicaSet, pods without an owner, pods of a Job
PodShapesByOwner ==
    PodShapesOneImage
       \cup {PodShape(<<[Kind |-> "Job", Name |-> RsWeb]>>, ImageID1)}

InitInformer ==
    /\ ClientInit
    /\ ControllerInit(DefaultWorkers, MaxPods - 1)

NextInformer ==
    \/ \E key \in Keys, shape \in PodShapesByOwner,
          phase \in {PodPending, PodRunning} : PodAdded(key, shape, phase)
    \/ \E key \in Keys, phase \in {PodPending, PodRunning},
          deleting \in BOOLEAN : PodUpdated(key, phase, deleting)
    \/ \E key \in Keys : PodDeleted(key)
    \/ \E w \in 1 .. DefaultWorkers : Get(w)
    \/ \E w \in 1 .. DefaultWorkers : ProcessEvent(w)
    \/ \E w \in 1 .. DefaultWorkers : RecordContainer(w)
    \/ \E w \in 1 .. DefaultWorkers : PostOne(w)
    \/ \E w \in 1 .. DefaultWorkers : UpdateCache(w)
    \/ \E w \in 1 .. DefaultWorkers : Return(w)
    \/ \E w \in 1 .. DefaultWorkers : Done(w)
    \/ \E item \in waiting : WaitingReady(item)

SpecInformer == InitInformer /\ [][NextInformer]_vars

(***************************************************************************)
(* The controller with one worker and pods of two containers: a regular    *)
(* container and an init container, whose statuses may be missing or       *)
(* without an image ID.                                                    *)
(***************************************************************************)
ContainerInit == <<"i">>

PodShapeTwo(statuses, initStatuses) ==
    [OwnerReferences |-> <<ReplicaSetOwner(RsWeb)>>,
     Containers |-> <<[Name |-> ContainerApp]>>,
     InitContainers |-> <<[Name |-> ContainerInit]>>,
     ContainerStatuses |-> statuses,
     InitContainerStatuses |-> initStatuses]

PodShapesTwo ==
    { PodShapeTwo(<<[Name |-> ContainerApp, ImageID |-> ImageID1]>>,
                  <<[Name |-> ContainerInit, ImageID |-> ImageID2]>>),
      \* no status entry for the regular container
      PodShapeTwo(<<>>,
                  <<[Name |-> ContainerInit, ImageID |-> ImageID2]>>),
      \* a status entry whose image ID is not resolved yet
      PodShapeTwo(<<[Name |-> ContainerApp, ImageID |-> EmptyStr]>>,
                  <<[Name |-> ContainerInit, ImageID |-> ImageID2]>>),
      \* no status entry for the init container
      PodShapeTwo(<<[Name |-> ContainerApp, ImageID |-> ImageID1]>>,
                  <<>>) }

InitTwo ==
    /\ ClientInit
    /\ ControllerInit(MinWorkers, WatchedPods)

NextTwo ==
    \/ \E key \in Keys, shape \in PodShapesTwo,
          phase \in {PodPending, PodRunning} : PodAdded(key, shape, phase)
    \/ \E key \in Keys, phase \in {PodPending, PodRunning},
          deleting \in BOOLEAN : PodUpdated(key, phase, deleting)
    \/ \E key \in Keys : PodDeleted(key)
    \/ \E name \in DeploymentNames : DeploymentDeleted(name)
    \/ \E w \in 1 .. DefaultWorkers : Get(w)
    \/ \E w \in 1 .. DefaultWorkers : ProcessEvent(w)
    \/ \E w \in 1 .. DefaultWorkers : ProcessEventLookupFails(w)
    \/ \E w \in 1 .. DefaultWorkers : RecordContainer(w)
    \/ \E w \in 1 .. DefaultWorkers : PostOne(w)
    \/ \E w \in 1 .. DefaultWorkers : UpdateCache(w)
    \/ \E w \in 1 .. DefaultWorkers : Return(w)
    \/ \E w \in 1 .. DefaultWorkers : Done(w)
    \/ \E item \in waiting : WaitingReady(item)

SpecTwo == InitTwo /\ [][NextTwo]_vars

(***************************************************************************)
(* Deletions the informer has missed: after a relist it calls DeleteFunc   *)
(* with a cache.DeletedFinalStateUnknown that wraps the last pod it knew.  *)
(***************************************************************************)
DeletedFinalStateUnknown(p) == [Kind |-> "DeletedFinalStateUnknown", Obj |-> p]

\* cache.MetaNamespaceKeyFunc(obj) for the obj DeleteFunc passes: the
\* tombstone has no object metadata, and the function returns an error
MetaNamespaceKeyFunc(obj) ==
    IF obj.Kind = "DeletedFinalStateUnknown"
    THEN [key |-> 0, err |-> TRUE]
    ELSE [key |-> obj.Obj.Key, err |-> FALSE]

\* DeleteFunc called with a tombstone
OnDeleteUnknown(tombstone) ==
    LET p == tombstone.Obj
        res == MetaNamespaceKeyFunc(tombstone)
    IN  IF getDeploymentName(p) = EmptyStr
        THEN UNCHANGED <<queue, dirty>>
        ELSE IF res.err
             THEN UNCHANGED <<queue, dirty>>
             ELSE QueueAdd(DeletedEvent(res.key, p))

PodDeletedUnknown(key) ==
    /\ indexer[key] # NoPod
    /\ LET p == indexer[key]
       IN  /\ indexer' = [indexer EXCEPT ![key] = NoPod]
           /\ OnDeleteUnknown(DeletedFinalStateUnknown(p))
    /\ UNCHANGED <<deployments, created, podLimit, cfgVars, callVars, processing,
                   waiting, failures, shuttingDown, observedDeployments,
                   workerVars, deliveryVars, postVars>>

\* main with -workers 1, in a cluster that uses a pod name again
InitRelist ==
    /\ ClientInit
    /\ ControllerInit(MinWorkers, MaxPods - 1)

NextRelist ==
    \/ \E key \in Keys, shape \in PodShapesByOwner,
          phase \in {PodPending, PodRunning} : PodAdded(key, shape, phase)
    \/ \E key \in Keys, phase \in {PodPending, PodRunning},
          deleting \in BOOLEAN : PodUpdated(key, phase, deleting)
    \/ \E key \in Keys : PodDeleted(key)
    \/ \E key \in Keys : PodDeletedUnknown(key)
    \/ \E name \in DeploymentNames : DeploymentDeleted(name)
    \/ \E w \in 1 .. DefaultWorkers : Get(w)
    \/ \E w \in 1 .. DefaultWorkers : ProcessEvent(w)
    \/ \E w \in 1 .. DefaultWorkers : RecordContainer(w)
    \/ \E w \in 1 .. DefaultWorkers : PostOne(w)
    \/ \E w \in 1 .. DefaultWorkers : UpdateCache(w)
    \/ \E w \in 1 .. DefaultWorkers : Return(w)
    \/ \E w \in 1 .. DefaultWorkers : Done(w)
    \/ \E item \in waiting : WaitingReady(item)

SpecRelist == InitRelist /\ [][NextRelist]_vars

(***************************************************************************)
(* Shutdown.  main cancels ctx on SIGINT or SIGTERM; Run waits on          *)
(* ctx.Done(), returns, and its deferred c.workqueue.ShutDown() runs; main  *)
(* returns after Run, and the process ends with the goroutines it started. *)
(* The informer runs until ctx.Done(), the workers until Get reports the   *)
(* shutdown.                                                               *)
(***************************************************************************)
\* <-ctx.Done() in Run, then the deferred c.workqueue.ShutDown()
RunReturns ==
    /\ cancelled
    /\ ~shuttingDown
    /\ shuttingDown' = TRUE
    /\ UNCHANGED <<clusterVars, cfgVars, callVars, queue, dirty, processing, waiting,
                   failures, observedDeployments, workerVars, deliveryVars,
                   postVars>>

\* event, shutdown := c.workqueue.Get() with shutdown true: the queue is
\* shutting down and has no item; processNextItem returns false and
\* runWorker returns
GetShutdown(w) ==
    /\ Started(w)
    /\ pc[w] = "Get"
    /\ queue = <<>>
    /\ shuttingDown
    /\ pc' = [pc EXCEPT ![w] = "stopped"]
    /\ UNCHANGED <<clusterVars, cfgVars, callVars, queueVars, observedDeployments,
                   event, pod, todo, exists, procErr, passPosts,
                   deliveryVars, postVars>>

\* main returns after cntrl.Run has returned nil: the process ends, and
\* every worker goroutine ends where it is
MainReturns ==
    /\ shuttingDown
    /\ \E w \in 1 .. DefaultWorkers : pc[w] \notin {"unused", "exited"}
    /\ pc' = [w \in 1 .. DefaultWorkers |->
                 IF pc[w] = "unused" THEN "unused" ELSE "exited"]
    /\ UNCHANGED <<clusterVars, cfgVars, callVars, queueVars, observedDeployments,
                   event, pod, todo, exists, procErr, passPosts,
                   deliveryVars, postVars>>

\* the process has ended
Exited == \E w \in 1 .. DefaultWorkers : pc[w] = "exited"

\* main with its default flags, one pod
InitShutdown ==
    /\ ClientInit
    /\ ControllerInit(DefaultWorkers, WatchedPods)

\* the informer delivers notifications until ctx.Done()
NextShutdown ==
    \/ /\ ~cancelled
       /\ \E key \in Keys, shape \in PodShapes,
             phase \in {PodPending, PodRunning} : AddFunc(key, shape, phase)
    \/ /\ ~cancelled
       /\ \E key \in Keys, phase \in {PodPending, PodRunning} :
             UpdateFunc(key, phase)
    \/ /\ ~cancelled
       /\ \E key \in Keys : DeleteFunc(key)
    \/ \E name \in DeploymentNames : DeploymentDeleted(name)
    \/ Cancel
    \/ RunReturns
    \/ MainReturns
    \/ \E w \in 1 .. DefaultWorkers : GetShutdown(w)
    \/ \E w \in 1 .. DefaultWorkers : Get(w)
    \/ \E w \in 1 .. DefaultWorkers : ProcessEvent(w)
    \/ \E w \in 1 .. DefaultWorkers : RecordContainer(w)
    \/ \E w \in 1 .. DefaultWorkers : PostOne(w)
    \/ \E w \in 1 .. DefaultWorkers : UpdateCache(w)
    \/ \E w \in 1 .. DefaultWorkers : Return(w)
    \/ \E w \in 1 .. DefaultWorkers : Done(w)
    \/ \E item \in waiting : WaitingReady(item)

SpecShutdown == InitShutdown /\ [][NextShutdown]_vars


(***************************************************************************)
(* Cancellation during a delivery: one worker whose PostOne calls run      *)
(* step by step in the client, until the process ends.                     *)
(***************************************************************************)
\* a worker is inside c.apiClient.PostOne
InPostOne == \E w \in 1 .. DefaultWorkers : pc[w] = "PostOne"

\* the service fails a bounded number of deliveries: once it has, an
\* attempt on a live context is answered with a 2xx
ServiceRecovers ==
    NumFaults >= MaxFaults /\ ~cancelled =>
        postPc' = "done" /\ postResult'.kind = "nil"

\* err := c.apiClient.PostOne(ctx, record) returns to recordContainer; the
\* locals of the call are gone
PostOneReturns(w) ==
    /\ pc[w] = "PostOne"
    /\ postPc = "done"
    /\ AfterPostOne(w, postResult.kind)
    /\ postPc' = "ratelimit"
    /\ postResult' = Pending
    /\ attempt' = 0
    /\ delay' = 0
    /\ jitter' = 0
    /\ lastErr' = NoErr
    /\ httpCalls' = 0
    /\ sleeps' = 0
    /\ UNCHANGED <<retries, useApp, badURL, cancelled, postMetrics>>
    /\ UNCHANGED <<clusterVars, cfgVars, callVars, queueVars, observedDeployments,
                   event, pod, exists>>

\* main with -workers 1, one pod
InitCancel ==
    /\ ClientInit
    /\ ControllerInit(MinWorkers, WatchedPods)

NextCancel ==
    \/ /\ ~cancelled
       /\ \E key \in Keys, shape \in PodShapes,
             phase \in {PodPending, PodRunning} : AddFunc(key, shape, phase)
    \/ /\ ~cancelled
       /\ \E key \in Keys, phase \in {PodPending, PodRunning} :
             UpdateFunc(key, phase)
    \/ /\ ~cancelled
       /\ \E key \in Keys : DeleteFunc(key)
    \/ \E name \in DeploymentNames : DeploymentDeleted(name)
    \/ Cancel
    \/ RunReturns
    \/ MainReturns
    \/ \E w \in 1 .. DefaultWorkers : GetShutdown(w)
    \/ \E w \in 1 .. DefaultWorkers : Get(w)
    \/ \E w \in 1 .. DefaultWorkers : ProcessEvent(w)
    \/ \E w \in 1 .. DefaultWorkers : RecordContainer(w)
    \/ InPostOne /\ PostRateWait
    \/ InPostOne /\ PostExhausted
    \/ InPostOne /\ PostBackoff
    \/ InPostOne /\ PostSleepDone
    \/ InPostOne /\ PostSleepCancelled
    \/ InPostOne /\ PostAttempt /\ ServiceRecovers
    \/ \E w \in 1 .. DefaultWorkers : PostOneReturns(w)
    \/ \E w \in 1 .. DefaultWorkers : UpdateCache(w)
    \/ \E w \in 1 .. DefaultWorkers : Return(w)
    \/ \E w \in 1 .. DefaultWorkers : Done(w)
    \/ \E item \in waiting : WaitingReady(item)

SpecCancel == InitCancel /\ [][NextCancel]_vars

(***************************************************************************)
(* Record construction.  The controller with one worker and a template    *)
(* from DN_TEMPLATE, in a cluster whose pods differ in namespace, owner    *)
(* and container name.                                                     *)
(***************************************************************************)
NsProd == <<"p", "r", "o", "d">>
RsWebHash == <<"w", "e", "b", "-", "7", "f", "9", "c", "9", "b", "6", "d", "8">>
RsTwoDashes == <<"w", "-", "b", "-", "c">>
ContainerAppName == <<"a", "p", "p">>

\* templates that pass ValidTemplate: the default, one placeholder alone,
\* placeholders that occur twice, literal text around placeholders
Templates ==
    { DefaultTemplate,
      <<TmplDN>>,
      <<TmplCN, Literal(<<"-">>), TmplNS, Literal(<<"-">>), TmplCN, TmplNS>>,
      <<Literal(<<"{", "{", "x", "}", "}">>), TmplDN, Literal(<<".">>)>> }

PodShapeNamed(owners, name) ==
    [OwnerReferences |-> owners,
     Containers |-> <<[Name |-> name]>>,
     InitContainers |-> <<>>,
     ContainerStatuses |-> <<[Name |-> name, ImageID |-> ImageID1]>>,
     InitContainerStatuses |-> <<>>]

PodShapesNamed ==
    { PodShapeNamed(<<ReplicaSetOwner(RsWebHash)>>, ContainerAppName),
      PodShapeNamed(<<ReplicaSetOwner(RsTwoDashes)>>, ContainerApp),
      PodShapeNamed(<<[Kind |-> "Job", Name |-> RsWeb],
                      ReplicaSetOwner(RsTwoDashes),
                      ReplicaSetOwner(RsWeb)>>, ContainerInit) }

\* AddFunc for a pod of namespace ns
AddFuncIn(ns, key, shape, phase) ==
    /\ created < podLimit
    /\ key = created + 1
    /\ LET p == [NewPod(key, shape, phase) EXCEPT !.Namespace = ns]
       IN  /\ indexer' = [indexer EXCEPT ![key] = p]
           /\ created' = created + 1
           /\ OnAdd(p)
    /\ UNCHANGED <<deployments, podLimit, cfgVars, callVars, processing,
                   waiting, failures, shuttingDown, observedDeployments,
                   workerVars, deliveryVars, postVars>>

\* main with -workers 1 and DN_TEMPLATE set to one of the templates
InitRecord ==
    /\ ClientInit
    /\ NoCall
    /\ \E tmpl \in Templates : NewController(MinWorkers, WatchedPods, tmpl)

NextRecord ==
    \/ \E ns \in {Namespace, NsProd}, key \in Keys, shape \in PodShapesNamed,
          phase \in {PodPending, PodRunning} : AddFuncIn(ns, key, shape, phase)
    \/ \E key \in Keys, phase \in {PodPending, PodRunning} :
          UpdateFunc(key, phase)
    \/ \E key \in Keys : DeleteFunc(key)
    \/ \E name \in DeploymentNames : DeploymentDeleted(name)
    \/ \E w \in 1 .. DefaultWorkers : Get(w)
    \/ \E w \in 1 .. DefaultWorkers : ProcessEvent(w)
    \/ \E w \in 1 .. DefaultWorkers : RecordContainer(w)
    \/ \E w \in 1 .. DefaultWorkers : PostOne(w)
    \/ \E w \in 1 .. DefaultWorkers : UpdateCache(w)
    \/ \E w \in 1 .. DefaultWorkers : Return(w)
    \/ \E w \in 1 .. DefaultWorkers : Done(w)
    \/ \E item \in waiting : WaitingReady(item)

SpecRecord == InitRecord /\ [][NextRecord]_vars

(***************************************************************************)
(* The functions of the packages, called on their own: the arguments are   *)
(* drawn from a bounded set, one action makes the call.  The controller    *)
(* and the client are constructed and stay idle.                           *)
(***************************************************************************)
\* nothing of the controller runs
Idle == ClientInit /\ NewController(0, 0, DefaultTemplate)

\* s contains sub
Contains(s, sub) ==
    \E i \in 1 .. Len(s) - Len(sub) + 1 : SubSeq(s, i, i + Len(sub) - 1) = sub

RECURSIVE Concat(_)
Concat(parts) ==
    IF parts = <<>> THEN EmptyStr ELSE Head(parts) \o Concat(Tail(parts))

\* image IDs: text, then "sha256:" or nearly that, then a digest X that may
\* be empty, then an end: nothing, '@', ' ', or a second digest
ImageIDs ==
    { Concat(<<pre, mid, x, post>>) :
         pre \in {EmptyStr, <<"x">>, <<"x", "@">>, <<"s", "h", "a">>},
         mid \in {Sha256Prefix, <<"s", "h", "a", "2", "5", "6">>, EmptyStr},
         x \in {EmptyStr, <<"1">>, <<"1", "2">>},
         post \in {EmptyStr, <<"@", "y">>, <<" ", "y">>,
                   <<"@">> \o Sha256Prefix \o <<"2">>} }

\* digest := image.ExtractDigest(imageID)
CallExtractDigest ==
    /\ ret = <<>>
    /\ ret' = <<ExtractDigest(arg[1])>>
    /\ UNCHANGED <<arg, postVars, ctrlVars>>

InitDigest ==
    /\ Idle
    /\ \E imageID \in ImageIDs : arg = <<imageID>>
    /\ ret = <<>>

NextDigest == CallExtractDigest

SpecDigest == InitDigest /\ [][NextDigest]_vars

\* strings.Index(s, c) for a one-character c, 0-based, -1 when absent
Index(s, c) ==
    LET hits == {i \in 1 .. Len(s) : s[i] = c}
    IN  IF hits = {} THEN -1
        ELSE (CHOOSE i \in hits : \A j \in hits : i <= j) - 1

ExtractName_TagAfterLastColon(image) ==
    IF image = EmptyStr THEN <<EmptyStr, EmptyStr>>
    ELSE LET idx == Index(image, "@")
             img == IF idx # -1 THEN Prefix(image, idx) ELSE image
             tagStart == LastIndex(img, ":")
         IN  IF tagStart > -1
             THEN <<Prefix(img, tagStart), Suffix(img, tagStart + 1)>>
             ELSE <<img, EmptyStr>>

\* image.ExtractName: the pair (name, tag)
ExtractName(image) ==
    IF image = EmptyStr THEN <<EmptyStr, EmptyStr>>
    ELSE LET idx == Index(image, "@")
             img == IF idx # -1 THEN Prefix(image, idx) ELSE image
             lastSlash == LastIndex(img, "/")
             tagStart == LastIndex(img, ":")
         IN  IF tagStart > lastSlash
             THEN <<Prefix(img, tagStart), Suffix(img, tagStart + 1)>>
             ELSE <<img, EmptyStr>>

\* image references: a registry with or without a port and a path, a name,
\* a tag, a digest; each part may be missing or malformed
ImageRefs ==
    { Concat(<<reg, name, tag, dig>>) :
         reg \in {EmptyStr, <<"r", "/">>, <<"r", ":", "5", "/">>,
                  <<"r", ":", "5", "/", "o", "/">>},
         name \in {EmptyStr, <<"n">>},
         tag \in {EmptyStr, <<":">>, <<":", "t">>, <<":", "t", ":", "u">>},
         dig \in {EmptyStr, <<"@">>, <<"@", "d">>,
                  <<"@", "s", ":", "d", "/", "e">>, <<"@", "d", "@", "e">>} }

\* imageName, version := image.ExtractName(container.Image)
CallExtractName ==
    /\ ret = <<>>
    /\ ret' = ExtractName(arg[1])
    /\ UNCHANGED <<arg, postVars, ctrlVars>>

InitName ==
    /\ Idle
    /\ \E image \in ImageRefs : arg = <<image>>
    /\ ret = <<>>

NextName == CallExtractName

SpecName == InitName /\ [][NextName]_vars

\* the placeholders TmplNS, TmplDN and TmplCN as text
TmplNSText == <<"{", "{", "n", "a", "m", "e", "s", "p", "a", "c", "e", "}",
                "}">>
TmplDNText == <<"{", "{", "d", "e", "p", "l", "o", "y", "m", "e", "n", "t",
                "N", "a", "m", "e", "}", "}">>
TmplCNText == <<"{", "{", "c", "o", "n", "t", "a", "i", "n", "e", "r", "N",
                "a", "m", "e", "}", "}">>

ValidTemplate_AnyBraces(t) ==
    Contains(t, <<"{", "{">>) /\ Contains(t, <<"}", "}">>)

\* controller.ValidTemplate
ValidTemplate(t) ==
    LET hasPlaceholder == \/ Contains(t, TmplNSText)
                          \/ Contains(t, TmplDNText)
                          \/ Contains(t, TmplCNText)
    IN  hasPlaceholder

\* s starts with prefix
HasPrefix(s, prefix) ==
    Len(s) >= Len(prefix) /\ SubSeq(s, 1, Len(prefix)) = prefix

\* the text of a template as strings.ReplaceAll reads it: the placeholders
\* it will replace, and the text between them
RECURSIVE ParseTemplate(_)
ParseTemplate(t) ==
    IF t = EmptyStr THEN <<>>
    ELSE IF HasPrefix(t, TmplNSText)
         THEN <<TmplNS>> \o ParseTemplate(Suffix(t, Len(TmplNSText)))
    ELSE IF HasPrefix(t, TmplDNText)
         THEN <<TmplDN>> \o ParseTemplate(Suffix(t, Len(TmplDNText)))
    ELSE IF HasPrefix(t, TmplCNText)
         THEN <<TmplCN>> \o ParseTemplate(Suffix(t, Len(TmplCNText)))
    ELSE <<Literal(<<Head(t)>>)>> \o ParseTemplate(Tail(t))

\* values of DN_TEMPLATE: text, then a placeholder or something close to
\* one, then text
TemplateTexts ==
    { Concat(<<pre, mid, post>>) :
         pre \in {EmptyStr, <<"a", "/">>, <<"{", "{">>},
         mid \in {TmplNSText, TmplDNText, TmplCNText, EmptyStr,
                  \* wrong case
                  <<"{", "{", "N", "a", "m", "e", "s", "p", "a", "c", "e", "}", "}">>,
                  \* one letter more
                  <<"{", "{", "n", "a", "m", "e", "s", "p", "a", "c", "e", "s", "}", "}">>,
                  \* spaces inside the braces
                  <<"{", "{", " ", "n", "a", "m", "e", "s", "p", "a", "c", "e", " ", "}", "}">>,
                  \* braces missing
                  <<"{", "{", "n", "a", "m", "e", "s", "p", "a", "c", "e">>,
                  <<"n", "a", "m", "e", "s", "p", "a", "c", "e", "}", "}">>,
                  <<"{", "n", "a", "m", "e", "s", "p", "a", "c", "e", "}">>},
         post \in {EmptyStr, <<"/", "b">>, <<"}", "}">>, <<" ">>} }

\* main up to os.Exit(1) after "Template must contain at least one
\* placeholder"
MainExits ==
    /\ ret = <<>>
    /\ ~ValidTemplate(arg[1])
    /\ ret' = <<"os.Exit(1)">>
    /\ UNCHANGED <<arg, postVars, ctrlVars>>

\* main with a valid template: controller.New(clientset, namespace,
\* &cntrlCfg) and cntrl.Run(ctx, workers)
MainStarts ==
    /\ ret = <<>>
    /\ ValidTemplate(arg[1])
    /\ ret' = <<"controller.New">>
    /\ template' = ParseTemplate(arg[1])
    /\ workers' = DefaultWorkers
    /\ pc' = [w \in 1 .. DefaultWorkers |-> "Get"]
    /\ UNCHANGED <<arg, postVars, clusterVars, queueVars,
                   observedDeployments, event, pod, todo, exists, procErr,
                   passPosts, deliveryVars>>

\* the process before main has read its configuration
InitMain ==
    /\ Idle
    /\ \E t \in TemplateTexts : arg = <<t>>
    /\ ret = <<>>

NextMain == MainExits \/ MainStarts

SpecMain == InitMain /\ [][NextMain]_vars

\* the characters of the class [a-zA-Z0-9_-]
OrgChars ==
    { "a", "b", "c", "d", "e", "f", "g", "h", "i", "j", "k", "l", "m", "n",
      "o", "p", "q", "r", "s", "t", "u", "v", "w", "x", "y", "z", "A", "B",
      "C", "D", "E", "F", "G", "H", "I", "J", "K", "L", "M", "N", "O", "P",
      "Q", "R", "S", "T", "U", "V", "W", "X", "Y", "Z", "0", "1", "2", "3",
      "4", "5", "6", "7", "8", "9", "_", "-" }

\* validOrgPattern.MatchString(org) for ^[a-zA-Z0-9_-]+$
ValidOrg(org) ==
    org # EmptyStr /\ \A i \in 1 .. Len(org) : org[i] \in OrgChars

SchemeHTTP == <<"h", "t", "t", "p", ":", "/", "/">>
SchemeHTTPS == <<"h", "t", "t", "p", "s", ":", "/", "/">>
HostLocalhost == <<"l", "o", "c", "a", "l", "h", "o", "s", "t">>
HostLoopback == <<"1", "2", "7", ".", "0", ".", "0", ".", "1">>
ClusterLocal == <<".", "s", "v", "c", ".", "c", "l", "u", "s", "t", "e", "r", ".", "l", "o", "c", "a", "l">>

\* the pair (client, err) of NewClient: (nil, err) and (c, nil); the client
\* is a sequence of no or one Client
NoClient(err) == <<<<>>, err>>
ClientOf(baseURL, org) ==
    <<<<[baseURL |-> baseURL, org |-> org, retries |-> DefaultRetries]>>,
      "nil">>

\* deploymentrecord.NewClient(baseURL, org) without options: the pair
\* (client, err)
NewClient(baseURL, org) ==
    LET isLocal == \/ HasPrefix(baseURL, SchemeHTTP \o HostLocalhost)
                   \/ HasPrefix(baseURL, SchemeHTTP \o HostLoopback)
                   \/ Contains(baseURL, ClusterLocal)
        url == IF ~HasPrefix(baseURL, SchemeHTTPS)
                  /\ ~HasPrefix(baseURL, SchemeHTTP)
               THEN SchemeHTTPS \o baseURL
               ELSE baseURL
    IN  IF HasPrefix(baseURL, SchemeHTTP) /\ ~isLocal
        THEN NoClient("insecure URL not allowed")
        ELSE IF ~ValidOrg(org)
        THEN NoClient("invalid organization name")
        ELSE ClientOf(url, org)

\* values of BASE_URL: no scheme, https or http; a local, an in-cluster or
\* another host, or a host whose name only starts like a local one; with
\* or without a port and a path
BaseURLs ==
    { Concat(<<scheme, host, port, path>>) :
         scheme \in {EmptyStr, SchemeHTTPS, SchemeHTTP},
         host \in {HostLocalhost, HostLoopback, <<"s">> \o ClusterLocal,
                   <<"e", ".", "c", "o">>,
                   HostLocalhost \o <<".", "e", ".", "c", "o">>,
                   HostLoopback \o <<".", "e", ".", "c", "o">>,
                   EmptyStr},
         port \in {EmptyStr, <<":", "8">>},
         path \in {EmptyStr, <<"/", "v">>} }

\* values of GITHUB_ORG
Orgs ==
    { <<"m", "y", "-", "o", "r", "g">>, <<"a", "_", "B", "-", "1">>, EmptyStr,
      <<"m", "y", " ", "o", "r", "g">>, <<"o", "/", ".", ".">>, <<"o", "@", "!">> }

\* client, err := deploymentrecord.NewClient(cfg.BaseURL, cfg.Organization)
CallNewClient ==
    /\ ret = <<>>
    /\ ret' = NewClient(arg[1], arg[2])
    /\ UNCHANGED <<arg, postVars, ctrlVars>>

InitNewClient ==
    /\ Idle
    /\ \E baseURL \in BaseURLs, org \in Orgs : arg = <<baseURL, org>>
    /\ ret = <<>>

NextNewClient == CallNewClient

SpecNewClient == InitNewClient /\ [][NextNewClient]_vars

Digits == {"0", "1", "2", "3", "4", "5", "6", "7", "8", "9"}

\* strconv.Atoi(s) returns no error: an optional sign, then one or more
\* decimal digits (values that overflow int are not among the inputs)
AtoiOk(s) ==
    LET digits == IF s # EmptyStr /\ Head(s) \in {"+", "-"} THEN Tail(s)
                  ELSE s
    IN  digits # EmptyStr /\ \A i \in 1 .. Len(digits) : digits[i] \in Digits

\* the option WithGHApp(id, installID, pk) applied to a client: "panic", or
\* "transport" when c.transport is set; readable tells whether
\* ghinstallation.NewKeyFromFile can read and parse the key file pk
WithGHApp(id, installID, readable) ==
    IF ~AtoiOk(id) THEN "panic"
    ELSE IF ~AtoiOk(installID) THEN "panic"
    ELSE IF ~readable THEN "panic"
    ELSE "transport"

\* New has GitHub App credentials to configure
UsesGHApp(cfg) ==
    /\ cfg.GHAppID # EmptyStr
    /\ cfg.GHInstallID # EmptyStr
    /\ cfg.GHAppPrivateKey # EmptyStr

\* a panic leaves New and main: the process ends with a stack trace
Panic == <<"panic">>

\* controller.New(clientset, namespace, cfg): the pair (controller, err),
\* or Panic
New(cfg, readable) ==
    LET validated == NewClient(cfg.BaseURL, cfg.Organization)
    IN  IF validated[1] = <<>>
        THEN <<<<>>, "failed to create API client">>
        ELSE IF UsesGHApp(cfg)
                /\ WithGHApp(cfg.GHAppID, cfg.GHInstallID, readable) = "panic"
        THEN Panic
        ELSE <<<<"Controller">>, "nil">>

\* values of GH_APP_ID and GH_INSTALL_ID
AppIDs ==
    { EmptyStr, <<"1">>, <<"4", "2">>, <<"-", "1">>, <<"x">>,
      <<"1", "x">>, <<" ", "1">>, <<"+">> }

\* the configuration main reads from the environment, and whether the file
\* named by GH_APP_PRIV_KEY holds a key
Configs ==
    { <<[BaseURL |-> baseURL, Organization |-> <<"m", "y", "-", "o", "r", "g">>,
         GHAppID |-> id, GHInstallID |-> installID, GHAppPrivateKey |-> pk],
        readable>> :
         baseURL \in {<<"a", "p", "i", ".", "g", "i", "t", "h", "u", "b", ".", "c", "o", "m">>,
                      SchemeHTTP \o <<"e", ".", "c", "o">>},
         id \in AppIDs, installID \in AppIDs,
         pk \in {EmptyStr, <<"k">>}, readable \in BOOLEAN }

\* cntrl, err := controller.New(clientset, namespace, &cntrlCfg)
CallNew ==
    /\ ret = <<>>
    /\ ret' = New(arg[1], arg[2])
    /\ useApp' = IF ret' = <<<<"Controller">>, "nil">>
                 THEN UsesGHApp(arg[1]) ELSE useApp
    /\ UNCHANGED <<arg, ctrlVars>>
    /\ UNCHANGED <<retries, badURL, cancelled, postPc, attempt, delay, jitter,
                   lastErr, httpCalls, sleeps, postResult, postMetrics>>

InitNew ==
    /\ Idle
    /\ arg \in Configs
    /\ ret = <<>>

NextNew == CallNew

SpecNew == InitNew /\ [][NextNew]_vars

\* os.Getenv(key) in the environment env: the empty string when unset
Getenv(env, key) == IF key \in DOMAIN env THEN env[key] ELSE EmptyStr

\* getEnvOrDefault(key, defaultValue)
getEnvOrDefault(env, key, defaultValue) ==
    IF Getenv(env, key) # EmptyStr THEN Getenv(env, key) ELSE defaultValue

\* defaultTemplate of main, as text
defaultTemplate == TmplNSText \o <<"/">> \o TmplDNText \o <<"/">> \o TmplCNText

\* cntrlCfg of main, as far as the required-configuration checks read it
ConfigOf(env) ==
    [Template |-> getEnvOrDefault(env, "DN_TEMPLATE", defaultTemplate),
     LogicalEnvironment |-> Getenv(env, "LOGICAL_ENVIRONMENT"),
     Cluster |-> Getenv(env, "CLUSTER"),
     Organization |-> Getenv(env, "GITHUB_ORG")]

\* main from cntrlCfg to createK8sConfig: the message of the check that
\* ends the process with os.Exit(1), or "" when all four checks pass
RequiredConfig(cfg) ==
    IF ~ValidTemplate(cfg.Template)
    THEN "Template must contain at least one placeholder"
    ELSE IF cfg.LogicalEnvironment = EmptyStr
    THEN "Logical environment is required"
    ELSE IF cfg.Cluster = EmptyStr
    THEN "Cluster is required"
    ELSE IF cfg.Organization = EmptyStr
    THEN "Organization is required"
    ELSE ""

\* the environments of the process: each variable unset or set, the
\* template unset, valid or without a placeholder
Environments ==
    { [ORG |-> org, GITHUB_ORG |-> ghOrg, LOGICAL_ENVIRONMENT |-> le,
       CLUSTER |-> cluster, DN_TEMPLATE |-> tmpl,
       PHYSICAL_ENVIRONMENT |-> pe] :
         org \in {EmptyStr, <<"m", "y", "-", "o", "r", "g">>},
         ghOrg \in {EmptyStr, <<"m", "y", "-", "o", "r", "g">>},
         le \in {EmptyStr, <<"l">>},
         cluster \in {EmptyStr, <<"c">>},
         tmpl \in {EmptyStr, TmplDNText, <<"s", "t", "a", "t", "i", "c">>},
         pe \in {EmptyStr, <<"p">>} }

\* main runs its required-configuration checks
MainChecksConfig ==
    /\ ret = <<>>
    /\ LET failed == RequiredConfig(ConfigOf(arg[1]))
       IN  ret' = IF failed # "" THEN <<"os.Exit(1)", failed>>
                  ELSE <<"createK8sConfig", "">>
    /\ UNCHANGED <<arg, postVars, ctrlVars>>

InitEnv ==
    /\ Idle
    /\ \E env \in Environments : arg = <<env>>
    /\ ret = <<>>

NextEnv == MainChecksConfig

SpecEnv == InitEnv /\ [][NextEnv]_vars

(***************************************************************************)
(* The receiving service and the deliveries, read from the history.        *)
(***************************************************************************)
Workers == 1 .. DefaultWorkers

CacheKeyOf(e) == getCacheKey(e.dn, e.digest)

Last(h) == h[Len(h)]

\* the entries of the history about one identity
EntriesOf(key) == {i \in 1 .. Len(hist) : CacheKeyOf(hist[i]) = key}

\* i and j are entries about the same identity with none between them
Consecutive(i, j) ==
    /\ i < j
    /\ CacheKeyOf(hist[i]) = CacheKeyOf(hist[j])
    /\ \A k \in EntriesOf(CacheKeyOf(hist[i])) : ~(i < k /\ k < j)

IsPost(e) == e.outcome # "skip"

\* the identities the run has met
Identities ==
    {CacheKeyOf(hist[i]) : i \in 1 .. Len(hist)} \cup observedDeployments

\* status of the last successful delivery for an identity
LastDelivered(key) ==
    LET ok == {i \in EntriesOf(key) : hist[i].outcome = "ok"}
    IN  IF ok = {} THEN "none"
        ELSE hist[CHOOSE i \in ok : \A j \in ok : j <= i].status

NoRecord == [digest |-> EmptyStr, status |-> ""]

\* the latest record the service accepted for a deployment name
ServiceLatest(dn) ==
    LET ok == {i \in 1 .. Len(hist) :
                  hist[i].dn = dn /\ hist[i].outcome = "ok"}
    IN  IF ok = {} THEN NoRecord
        ELSE LET i == CHOOSE h \in ok : \A j \in ok : j <= h
             IN  [digest |-> hist[i].digest, status |-> hist[i].status]

(***************************************************************************)
(* Properties of the reconciler with one worker (checked under SpecOne).   *)
(***************************************************************************)
\* C1: when two deployed decisions about the same identity follow one
\* another and the first was delivered, the second is a skip: recordContainer
\* returns without calling PostOne, and the two make one POST in total.
C1_IdempotentDeploy ==
    \A i, j \in 1 .. Len(hist) :
        ( /\ Consecutive(i, j)
          /\ hist[i].status = StatusDeployed /\ hist[i].outcome = "ok"
          /\ hist[j].status = StatusDeployed )
        => /\ hist[j].outcome = "skip"
           /\ Cardinality({k \in {i, j} : IsPost(hist[k])}) = 1

\* two Created items of one identity were processed, the first delivered
C1_Witness ==
    /\ pc[1] = "Get"
    /\ \E i, j \in 1 .. Len(hist) :
          /\ Consecutive(i, j)
          /\ hist[i].status = StatusDeployed /\ hist[i].outcome = "ok"
          /\ hist[j].status = StatusDeployed /\ hist[j].outcome = "skip"

\* deployed, decommissioned, deployed about one identity, each following the
\* other, the first two delivered and the third not failing
DeployedDecommissionedDeployed(i, j, k) ==
    /\ Consecutive(i, j) /\ Consecutive(j, k)
    /\ hist[i].status = StatusDeployed /\ hist[i].outcome = "ok"
    /\ hist[j].status = StatusDecommissioned /\ hist[j].outcome = "ok"
    /\ hist[k].status = StatusDeployed /\ hist[k].outcome \in {"ok", "skip"}

NumPosts(entries) == Cardinality({e \in entries : IsPost(hist[e])})

\* C3 as stated: deployed, decommissioned, deployed on one identity, every
\* delivery succeeding, makes exactly two POSTs.
C3_Original_TwoPosts ==
    \A i, j, k \in 1 .. Len(hist) :
        DeployedDecommissionedDeployed(i, j, k) => NumPosts({i, j, k}) = 2

\* C3: deployed, decommissioned, deployed on one identity, every delivery
\* succeeding, makes exactly three POSTs: two deployed and one
\* decommissioned.
C3_ThreePosts ==
    \A i, j, k \in 1 .. Len(hist) :
        DeployedDecommissionedDeployed(i, j, k) =>
            /\ NumPosts({i, j, k}) = 3
            /\ hist[k].outcome = "ok"

C3_Witness ==
    /\ pc[1] = "Get"
    /\ \E i, j, k \in 1 .. Len(hist) :
          DeployedDecommissionedDeployed(i, j, k)

\* C5: whenever recordContainer has just skipped a deployed POST, the latest
\* record the service accepted for that deployment name has the skipped
\* digest and status deployed.
C5_SkipOnlyRedundant ==
    ( /\ hist # <<>>
      /\ Last(hist).outcome = "skip"
      /\ Last(hist).status = StatusDeployed )
    => ServiceLatest(Last(hist).dn)
          = [digest |-> Last(hist).digest, status |-> StatusDeployed]

(***************************************************************************)
(* Properties of the reconciler with the worker pool (checked under Spec). *)
(***************************************************************************)
\* C2: a recordContainer call for a Deleted item whose identity has no entry
\* in the cache returns without a POST and without an error, and the pass
\* that made no POST ends with Forget: the item is not requeued.
C2_DeletedWithoutEntryNoPost ==
    [][\A w \in Workers :
          /\ ( /\ RecordContainer(w)
               /\ StatusOf(event[w]) = StatusDecommissioned
               /\ CurrentKey(w) \notin observedDeployments )
             => /\ pc'[w] = "return"
                /\ passPosts'[w] = 0
                /\ ~procErr'[w]
                /\ hist' = Append(hist, Record(CurrentDN(w), CurrentDigest(w),
                                               StatusDecommissioned, "skip"))
          /\ ( /\ Return(w)
               /\ event[w].EventType = EventDeleted
               /\ passPosts[w] = 0 )
             => /\ waiting' = waiting
                /\ event[w] \notin waiting ]_vars

\* a Deleted item went through the gate without an entry and is done
C2_Witness ==
    \E w \in Workers :
        /\ pc[w] = "Done"
        /\ event[w].EventType = EventDeleted
        /\ exists[w] = "notfound"
        /\ passPosts[w] = 0
        /\ \E i \in 1 .. Len(hist) :
              /\ hist[i].status = StatusDecommissioned
              /\ hist[i].outcome = "skip"

\* C4: when no worker stands between a delivery and its cache update for an
\* identity, the cache holds the identity exactly when its last successful
\* delivery was deployed.
C4_CacheInvariant ==
    \A key \in Identities :
        (\A w \in Workers : ~(pc[w] = "updateCache" /\ CurrentKey(w) = key))
        => (key \in observedDeployments
               <=> LastDelivered(key) = StatusDeployed)

\* C6: a worker processing a Deleted item reaches recordContainer, and so a
\* POST, only after its probe answered not-found; after any other answer it
\* has made no POST, has no error, is on its way out and is not requeued,
\* and its last steps leave the cache as it is.
C6_NoFalseDecommission ==
    /\ [](\A w \in Workers :
            event[w].EventType = EventDeleted =>
              /\ (pc[w] \in {"recordContainer", "PostOne", "updateCache"}
                    \/ passPosts[w] > 0)
                 => exists[w] = "notfound"
              /\ exists[w] \in {"found", "error"}
                 => /\ pc[w] \in {"return", "Done"}
                    /\ passPosts[w] = 0
                    /\ ~procErr[w]
                    /\ event[w] \notin waiting)
    /\ [][\A w \in Workers :
            ( /\ event[w].EventType = EventDeleted
              /\ exists[w] \in {"found", "error"}
              /\ (Return(w) \/ Done(w)) )
            => /\ observedDeployments' = observedDeployments
               /\ hist' = hist
               /\ waiting' = waiting ]_vars

\* one Deleted item was answered found or error and is done, and a
\* decommissioned record was delivered for another
C6_Witness ==
    /\ \E w \in Workers :
          /\ pc[w] = "Done"
          /\ event[w].EventType = EventDeleted
          /\ exists[w] \in {"found", "error"}
    /\ \E i \in 1 .. Len(hist) :
          /\ hist[i].status = StatusDecommissioned
          /\ hist[i].outcome = "ok"

(***************************************************************************)
(* Properties of the Delivery Client (checked under SpecPost).             *)
(***************************************************************************)
PostDone == postPc = "done"

\* the error of an attempt that ended in a network error, a 5xx or a 429
IsRetriedErr(e) ==
    \/ e = RequestErr
    \/ /\ e.kind = "unexpected status code"
       /\ e.code = 429 \/ (e.code >= 500 /\ e.code <= 599)

\* C7: PostOne makes at most retries+1 HTTP attempts per call and stops at
\* the first 2xx response, returning nil: once a 2xx was received the call
\* is over with result nil and the number of HTTP calls is the number of
\* failed attempts before it plus one (retries = 3 and 500, 500, 500, 200
\* give 4 calls), and nil is returned for no other reason.
C7_AtMostRetriesPlusOneAttempts ==
    /\ httpCalls <= retries + 1
    /\ postMetrics.ok <= 1
    /\ postMetrics.ok = 1 =>
          /\ PostDone
          /\ postResult = Returned("nil", NoErr)
          /\ httpCalls = postMetrics.softFail + 1
    /\ postResult.kind = "nil" => postMetrics.ok = 1
    /\ (retries = 3 /\ postMetrics.softFail = 3 /\ postMetrics.ok = 1)
          => httpCalls = 4

\* C7 witness: retries = 3, three failed attempts the last of which was a
\* 500, then a 2xx: four calls and success
C7_Witness ==
    /\ retries = 3
    /\ PostDone
    /\ postResult.kind = "nil"
    /\ postMetrics.softFail = 3
    /\ lastErr = StatusErr(500)
    /\ httpCalls = 4

\* C8: for every response status in 400..499 other than 429, PostOne stops
\* at that attempt and returns a ClientError wrapping that status; a 404 on
\* the first attempt gives exactly one HTTP call.
C8_ClientErrorStopsAtOnce ==
    /\ (/\ lastErr.kind = "unexpected status code"
        /\ lastErr.code >= 400 /\ lastErr.code <= 499 /\ lastErr.code # 429)
          => /\ PostDone
             /\ postResult = Returned("ClientError", lastErr)
             /\ postMetrics.clientError = 1
             /\ httpCalls = postMetrics.softFail + 1
    /\ (lastErr = StatusErr(404) /\ postMetrics.softFail = 0)
          => httpCalls = 1

\* C8 witness: a 404 answered the first attempt of a call that had retries
\* left
C8_Witness ==
    /\ retries >= 1
    /\ PostDone
    /\ lastErr = StatusErr(404)
    /\ postResult.kind = "ClientError"
    /\ httpCalls = 1

\* C9 as stated: a finished call, every attempt of which ended in a network
\* error, a 5xx or a 429 (at least one attempt was made), made exactly
\* retries+1 HTTP attempts and returned 'all retries exhausted' wrapping the
\* last attempt's error.
C9_Original_AlwaysExhausts ==
    (/\ PostDone
     /\ httpCalls >= 1
     /\ postMetrics.ok = 0
     /\ IsRetriedErr(lastErr))
       => /\ httpCalls = retries + 1
          /\ postResult = Returned("all retries exhausted", lastErr)

\* C9 (amended): when every attempt of a call ends in a network error, a
\* 5xx or a 429, and the call is not cut short by a cancelled context, by a
\* request that cannot be created or by a token that cannot be obtained,
\* the call makes exactly retries+1 HTTP attempts and returns the
\* non-ClientError 'all retries exhausted' wrapping the last attempt's
\* error; while attempts remain such an outcome leaves the call running.
C9_ExhaustsAfterRetriesPlusOne ==
    /\ (/\ PostDone
        /\ ~cancelled
        /\ ~badURL
        /\ postResult.kind # "failed to get access token"
        /\ postMetrics.ok = 0
        /\ IsRetriedErr(lastErr))
          => /\ httpCalls = retries + 1
             /\ postResult = Returned("all retries exhausted", lastErr)
             /\ postMetrics.hardFail = 1
    /\ postResult.kind = "all retries exhausted" =>
          /\ httpCalls = retries + 1
          /\ postMetrics.softFail = retries + 1
          /\ postResult.wraps = lastErr
          /\ lastErr # NoErr

\* C9 witness: retries >= 1, every attempt failed with a retried outcome, the
\* last one a 429, and the call returned 'all retries exhausted'
C9_Witness ==
    /\ retries >= 1
    /\ PostDone
    /\ ~cancelled
    /\ postResult = Returned("all retries exhausted", StatusErr(429))
    /\ httpCalls = retries + 1

\* min(5s, 2^k * 100ms + jitter), with 2^k * 100ms + jitter > 5 s for every
\* k >= 6
IdealDelay(k, j) ==
    IF k >= 6 THEN MaxDelayMs ELSE Min(MaxDelayMs, Pow2(k) * BaseDelayMs + j)

\* C10: there is no sleep before attempt 0, and for every attempt k >= 1 and
\* every configured retries value the sleep before attempt k is
\* min(5s, 2^k * 100ms + jitter) with jitter in [0, 50) ms; it is never
\* above 5 s, never negative, and below the cap it is strictly smaller than
\* every delay the next attempt can get.
C10_InnerBackoff ==
    /\ attempt = 0 => sleeps = 0
    /\ postPc = "sleep" =>
          /\ attempt >= 1
          /\ jitter >= 0 /\ jitter < 50
          /\ delay = IdealDelay(attempt, jitter)
          /\ delay >= 0
          /\ delay <= MaxDelayMs
          /\ delay < MaxDelayMs =>
                \A j \in 0 .. (JitterN - 1) : Delay(attempt + 1, j) > delay

(***************************************************************************)
(* Properties of the work queue and of the handlers (checked under         *)
(* SpecInformer).                                                          *)
(***************************************************************************)
\* the worker is between Get and Done
Active(w) == pc[w] \notin {"Get", "unused"}

\* the places of an item in the queue
InQueue(item) == {i \in 1 .. Len(queue) : queue[i] = item}

\* the items the queue knows
Items == dirty \cup processing \cup {queue[i] : i \in 1 .. Len(queue)}

\* C11: an item added again while an equal item is being processed is only
\* marked dirty, not queued; it is queued, once, when the pass in flight
\* calls Done, so however many notifications arrive during a pass there is
\* one pass in flight and one to come; a notification is never lost: a dirty
\* item is in the queue or is being processed and will be queued at Done.
C11_Coalescing ==
    /\ [](\A item \in Items :
             /\ Cardinality(InQueue(item)) <= 1
             /\ InQueue(item) # {} => item \in dirty /\ item \notin processing
             /\ item \in dirty => InQueue(item) # {} \/ item \in processing
             /\ Cardinality({w \in Workers : Active(w) /\ event[w] = item}) <= 1
             /\ item \in processing => \E w \in Workers : Active(w) /\ event[w] = item)
    /\ [][/\ \A item \in processing :
                item \notin dirty /\ item \in dirty' /\ item \in processing'
                   => queue' = queue
          /\ \A w \in Workers :
                Done(w) =>
                   queue' = IF event[w] \in dirty
                            THEN Append(queue, event[w]) ELSE queue
          /\ \A w \in Workers :
                Get(w) =>
                   /\ event'[w] \notin dirty'
                   /\ \A i \in 1 .. Len(queue') : queue'[i] # event'[w]]_vars

\* a notification has marked the Created item dirty while a worker is
\* processing an equal item
C11_Witness ==
    \E w \in Workers :
       /\ Active(w)
       /\ pc[w] = "PostOne"
       /\ event[w].EventType = EventCreated
       /\ event[w] \in dirty
       /\ NumRequeues(event[w]) = 0
       /\ waiting = {}

\* the identity of a work item: its Key and its EventType
SameIdentity(a, b) == a.Key = b.Key /\ a.EventType = b.EventType

\* C12: two work items are the same for the queue exactly when they have
\* the same Key and the same EventType: the queue never holds two entries
\* with equal Key and EventType, whatever pod a Deleted item captured.
C12_KeyAndTypeCoalesce ==
    \A i, j \in 1 .. Len(queue) :
       SameIdentity(queue[i], queue[j]) => i = j

\* C13: with two or more workers, at any time at most one worker is
\* processing a given identity (Key and EventType), and at most one further
\* copy of it is pending in the queue, also when the item was added again
\* with AddRateLimited after a failure.
C13_OneWorkerPerIdentity ==
    \A w \in Workers :
       Active(w) =>
          /\ \A v \in Workers :
                Active(v) /\ SameIdentity(event[v], event[w]) => v = w
          /\ Cardinality({i \in 1 .. Len(queue) :
                             SameIdentity(queue[i], event[w])}) <= 1

(***************************************************************************)
(* The outer retry (checked under SpecFair).                               *)
(***************************************************************************)
\* a pass over the item has ended without an error
Succeeded(item) ==
    \E w \in Workers : pc[w] = "Done" /\ event[w] = item /\ ~procErr[w]

\* C14: whenever processEvent returns an error, processNextItem adds the
\* item again with AddRateLimited, however often it was requeued before; an
\* item waiting for its delay stays until the queue takes it; and under fair
\* scheduling, the service accepting in the end, a pass over the item
\* eventually ends with success (as long as the run has room for another
\* recordContainer decision).
C14_OuterRetry ==
    /\ [][/\ \A w \in Workers :
                Return(w) /\ procErr[w] => event[w] \in waiting'
          /\ \A item \in waiting : item \in waiting' \/ item \in dirty']_vars
    /\ \A item \in AllItems :
          (item \in waiting) ~> (Succeeded(item) \/ ~HistRoom)

\* a Created item failed, was added again, and its second pass has ended
\* with a delivery the service accepted
C14_Witness ==
    \E w \in Workers :
       /\ pc[w] = "Done"
       /\ ~procErr[w]
       /\ event[w].EventType = EventCreated
       /\ Len(hist) = 2
       /\ hist[1].outcome = "error"
       /\ hist[2].outcome = "ok"
       /\ CacheKeyOf(hist[1]) = CacheKeyOf(hist[2])
       /\ HistRoom

(***************************************************************************)
(* Properties of processEvent and recordContainer on pods of two           *)
(* containers (checked under SpecTwo).                                     *)
(***************************************************************************)
\* the worker is inside the loops of processEvent
InLoops(w) == pc[w] \in {"recordContainer", "PostOne", "updateCache"}

\* the step adds the record of a POST with this outcome to the history
Posts(outcome) ==
    /\ Len(hist') = Len(hist) + 1
    /\ Last(hist').outcome = outcome

\* C15: processEvent calls recordContainer for every container and then for
\* every init container of the pod, also after an earlier one has failed; it
\* returns an error, and the item is queued again, exactly when the delivery
\* of at least one container returned an error that is not a ClientError;
\* a container delivered with success in the failed pass has updated the
\* cache and makes no POST in the retry: a retry makes no POST for an
\* identity whose latest successful delivery already has the status of the
\* item.
C15_EveryContainerThenAggregate ==
    /\ [](\A w \in Workers :
             /\ pc[w] \in {"Get", "processEvent"} => ~procErr[w]
             /\ pc[w] = "return" => todo[w] = <<>>)
    /\ [][\A w \in Workers :
             /\ ProcessEvent(w) /\ pc'[w] = "recordContainer" =>
                   todo'[w] = pod'[w].Containers \o pod'[w].InitContainers
             /\ InLoops(w) /\ pc'[w] # pc[w] =>
                   /\ todo'[w] \in {todo[w], Tail(todo[w])}
                   /\ pc'[w] \in {"recordContainer", "return"} <=>
                         todo'[w] = Tail(todo[w])
                   /\ pc'[w] = "return" <=> todo'[w] = <<>>
             /\ PostOne(w) =>
                   procErr'[w] = (procErr[w] \/ Posts("error"))
             /\ ~PostOne(w) /\ ~Done(w) => procErr'[w] = procErr[w]
             /\ Return(w) =>
                   IF procErr[w]
                   THEN event[w] \in waiting' /\ NumRequeues(event[w])' > 0
                   ELSE waiting' = waiting /\ NumRequeues(event[w])' = 0
             /\ PostOne(w) /\ NumRequeues(event[w]) > 0 =>
                   LastDelivered(CurrentKey(w)) # StatusOf(event[w])]_vars

\* the delivery for the regular container failed, the init container was
\* delivered all the same, and the item is in its retry
C15_Witness ==
    \E w \in Workers :
       /\ Len(hist) = 3
       /\ hist[1].dn = getARDeploymentName(pod[w], [Name |-> ContainerApp],
                                           DefaultTemplate)
       /\ hist[1].outcome = "error"
       /\ hist[2].dn = getARDeploymentName(pod[w], [Name |-> ContainerInit],
                                           DefaultTemplate)
       /\ hist[2].outcome = "ok"
       /\ hist[3].dn = hist[1].dn
       /\ hist[3].outcome = "ok"
       /\ NumRequeues(event[w]) > 0
       /\ pc[w] = "recordContainer"

(***************************************************************************)
(* Properties of recordContainer and processEvent in the worker pool       *)
(* (checked under Spec, whose pods have one container).                    *)
(***************************************************************************)
\* C16: when PostOne returns a ClientError, recordContainer returns nil:
\* the call changes neither the cache nor the error of the pass, the pass
\* counts as a success, and processNextItem calls Forget and does not add
\* the item again.
C16_ClientErrorIsDropped ==
    /\ [](\A w \in Workers :
             pc[w] \in {"Get", "processEvent", "recordContainer", "PostOne"}
                => ~procErr[w])
    /\ [][\A w \in Workers :
             /\ PostOne(w) /\ Posts("client_error") =>
                   /\ procErr'[w] = procErr[w]
                   /\ observedDeployments' = observedDeployments
                   /\ pc'[w] = "return"
             /\ Return(w) /\ ~procErr[w] =>
                   /\ waiting' = waiting
                   /\ NumRequeues(event[w])' = 0
                   /\ queue' = queue /\ dirty' = dirty]_vars

\* the only delivery of a pass came back with a ClientError and the item
\* has been forgotten
C16_Witness ==
    \E w \in Workers :
       /\ pc[w] = "Done"
       /\ passPosts[w] = 1
       /\ Last(hist).outcome = "client_error"
       /\ ~procErr[w]
       /\ event[w] \notin waiting
       /\ event[w] \notin DOMAIN failures
       /\ CacheKeyOf(Last(hist)) \notin observedDeployments

\* C17: the dedup cache changes only directly after a successful delivery:
\* a worker reaches the cache update only from a PostOne that returned nil,
\* the update inserts the identity of that delivery when the status is
\* deployed and removes it when the status is decommissioned, and no other
\* step (a skip, a ClientError, any other error, a handler, the queue)
\* changes the cache.
C17_CacheFrame ==
    [][/\ \A w \in Workers :
             pc'[w] = "updateCache" /\ pc[w] # "updateCache" =>
                /\ PostOne(w)
                /\ Posts("ok")
                /\ CacheKeyOf(Last(hist')) = CurrentKey(w)
                /\ Last(hist').status = StatusOf(event[w])
       /\ \A w \in Workers :
             UpdateCache(w) =>
                observedDeployments' =
                   IF StatusOf(event[w]) = StatusDeployed
                   THEN observedDeployments \cup {CurrentKey(w)}
                   ELSE observedDeployments \ {CurrentKey(w)}
       /\ observedDeployments' # observedDeployments =>
             \E w \in Workers : UpdateCache(w)]_vars

\* an identity was inserted after its deployed delivery and removed after
\* its decommissioned delivery
C17_Witness ==
    \E w \in Workers :
       /\ pc[w] = "return"
       /\ event[w].EventType = EventDeleted
       /\ Len(hist) >= 2
       /\ Last(hist).status = StatusDecommissioned
       /\ Last(hist).outcome = "ok"
       /\ CacheKeyOf(Last(hist)) \notin observedDeployments
       /\ \E i \in 1 .. Len(hist) :
             /\ hist[i].status = StatusDeployed
             /\ hist[i].outcome = "ok"
             /\ CacheKeyOf(hist[i]) = CacheKeyOf(Last(hist))

\* the pass of the worker is over a Created item whose pod was not found
NoPodFound(w) == event[w].EventType = EventCreated /\ pod[w] = NoPod

\* C18: a Created item whose key is no longer in the informer's cache, or
\* whose lookup fails, is dropped: processEvent returns nil without a call
\* of recordContainer, so there is no POST and no cache change, and
\* processNextItem calls Forget and does not add the item again.
C18_CreatedWithoutPod ==
    /\ [](\A w \in Workers :
             pc[w] \in {"return", "Done"} /\ NoPodFound(w) =>
                passPosts[w] = 0 /\ ~procErr[w])
    /\ [][\A w \in Workers :
             /\ /\ pc[w] = "processEvent"
                /\ pc'[w] # pc[w]
                /\ event[w].EventType = EventCreated
                /\ indexer[event[w].Key] = NoPod \/ ProcessEventLookupFails(w)
                => /\ pc'[w] = "return"
                   /\ NoPodFound(w)'
                   /\ hist' = hist
                   /\ observedDeployments' = observedDeployments
             /\ Return(w) /\ NoPodFound(w) =>
                   /\ waiting' = waiting
                   /\ NumRequeues(event[w])' = 0
                   /\ queue' = queue /\ dirty' = dirty
                   /\ hist' = hist
                   /\ observedDeployments' = observedDeployments]_vars

\* the pod was deleted before a worker got to its Created item, and the
\* item has been forgotten
C18_Witness ==
    \E w \in Workers :
       /\ pc[w] = "Done"
       /\ NoPodFound(w)
       /\ indexer[event[w].Key] = NoPod
       /\ event[w] \notin waiting
       /\ event[w] \notin DOMAIN failures
       /\ hist = <<>>
       /\ observedDeployments = {}

\* the container has no status entry, or its entry has no image ID
NoImageID(p, name) ==
    LET i == StatusIndex(p.ContainerStatuses, name)
        j == StatusIndex(p.InitContainerStatuses, name)
    IN  IF i # 0 THEN p.ContainerStatuses[i].ImageID = EmptyStr
        ELSE IF j # 0 THEN p.InitContainerStatuses[j].ImageID = EmptyStr
        ELSE TRUE

\* C19: a container whose reported deployment name is empty, or whose
\* digest is empty, which is the case exactly when it has no status entry or
\* an entry with an empty image ID, is skipped by recordContainer: no POST,
\* no cache change and no error, and the loops of processEvent go on with
\* the other containers of the item.
C19_SkipWithoutNameOrDigest ==
    /\ [](\A w \in Workers :
             pc[w] = "recordContainer" =>
                (CurrentDigest(w) = EmptyStr
                    <=> NoImageID(pod[w], Head(todo[w]).Name)))
    /\ [][\A w \in Workers :
             /\ RecordContainer(w)
             /\ CurrentDN(w) = EmptyStr \/ CurrentDigest(w) = EmptyStr
             => /\ hist' = hist
                /\ observedDeployments' = observedDeployments
                /\ procErr' = procErr
                /\ passPosts' = passPosts
                /\ todo'[w] = Tail(todo[w])
                /\ pc'[w] = IF Tail(todo[w]) = <<>> THEN "return"
                            ELSE "recordContainer"]_vars

\* the regular container had no digest and was passed over without a
\* record, and the init container of the same item is being delivered
C19_Witness ==
    \E w \in Workers :
       /\ pc[w] = "PostOne"
       /\ Head(todo[w]).Name = ContainerInit
       /\ getContainerDigest(pod[w], ContainerApp) = EmptyStr
       /\ hist = <<>>
       /\ ~procErr[w]
       /\ observedDeployments = {}

\* the pod has an owner reference of kind ReplicaSet
HasReplicaSetOwner(p) ==
    \E i \in 1 .. Len(p.OwnerReferences) :
       p.OwnerReferences[i].Kind = "ReplicaSet"

\* the step is one call of queue.Add with the item
AddedOnce(item) ==
    /\ dirty' = dirty \cup {item}
    /\ queue' = IF item \in dirty \/ item \in processing THEN queue
                ELSE Append(queue, item)

\* C20: an add notification enqueues one Created item exactly when the pod
\* is Running and has a ReplicaSet owner; an update notification enqueues
\* one Created item exactly when the new pod has a ReplicaSet owner, is not
\* being deleted, and the phase went from not Running (old) to Running
\* (new); every other add or update, resyncs and updates of a pod that was
\* already Running included, leaves the queue alone.
C20_WhenCreatedIsEnqueued ==
    [][\A key \in Keys :
          /\ (\E shape \in PodShapesByOwner, phase \in {PodPending, PodRunning} :
                 PodAdded(key, shape, phase)) =>
                IF /\ indexer'[key].Phase = PodRunning
                   /\ HasReplicaSetOwner(indexer'[key])
                THEN AddedOnce(CreatedEvent(key))
                ELSE queue' = queue /\ dirty' = dirty
          /\ (\E phase \in {PodPending, PodRunning}, deleting \in BOOLEAN :
                 PodUpdated(key, phase, deleting)) =>
                IF /\ HasReplicaSetOwner(indexer'[key])
                   /\ ~indexer'[key].Deleting
                   /\ indexer[key].Phase # PodRunning
                   /\ indexer'[key].Phase = PodRunning
                THEN AddedOnce(CreatedEvent(key))
                ELSE queue' = queue /\ dirty' = dirty]_vars

\* a pod of a ReplicaSet is Running and not being deleted, and the only
\* thing in the queue is its Created item
C20_Witness ==
    \E key \in Keys :
       /\ indexer[key] # NoPod
       /\ indexer[key].Phase = PodRunning
       /\ ~indexer[key].Deleting
       /\ HasReplicaSetOwner(indexer[key])
       /\ queue = <<CreatedEvent(key)>>
       /\ dirty = {CreatedEvent(key)}
       /\ processing = {}
       /\ hist = <<>>

(***************************************************************************)
(* Properties of the handlers when deletions can be missed (checked under  *)
(* SpecRelist).                                                            *)
(***************************************************************************)
\* C21: a delete notification, for a pod or for a tombstone that wraps a
\* pod, enqueues one Deleted item that carries the pod exactly when the pod
\* has a ReplicaSet owner, and enqueues nothing otherwise; processEvent
\* takes the pod of a Deleted item from the item and not from the
\* informer's cache.
C21_DeleteEnqueuesSnapshot ==
    [][/\ \A key \in Keys :
             PodDeleted(key) \/ PodDeletedUnknown(key) =>
                IF HasReplicaSetOwner(indexer[key])
                THEN AddedOnce(DeletedEvent(key, indexer[key]))
                ELSE queue' = queue /\ dirty' = dirty
       /\ \A w \in Workers :
             /\ ProcessEvent(w)
             /\ event[w].EventType = EventDeleted
             /\ pc'[w] = "recordContainer"
             => pod'[w] = event[w].DeletedPod]_vars

\* the step is a call of one of the handlers
HandlerStep ==
    \E key \in Keys :
       \/ \E shape \in PodShapesByOwner, phase \in {PodPending, PodRunning} :
             PodAdded(key, shape, phase)
       \/ \E phase \in {PodPending, PodRunning}, deleting \in BOOLEAN :
             PodUpdated(key, phase, deleting)
       \/ PodDeleted(key)
       \/ PodDeletedUnknown(key)

\* C22: the add, update and delete handlers do nothing but, possibly, add
\* one item to the work queue: they leave the dedup cache as it is, make no
\* delivery and no probe for the Deployment, and do not touch what the
\* workers are doing.
C22_HandlersOnlyEnqueue ==
    [][HandlerStep =>
          /\ observedDeployments' = observedDeployments
          /\ hist' = hist
          /\ exists' = exists
          /\ passPosts' = passPosts
          /\ postVars' = postVars
          /\ workerVars' = workerVars
          /\ processing' = processing
          /\ waiting' = waiting
          /\ failures' = failures
          /\ \/ queue' = queue /\ dirty' = dirty
             \/ \E item \in dirty' \ dirty :
                   /\ dirty' = dirty \cup {item}
                   /\ queue' \in {queue, Append(queue, item)}]_vars

\* a handler has queued a Deleted item while the cache holds an identity
\* and the worker is idle
C22_Witness ==
    /\ queue # <<>>
    /\ Last(queue).EventType = EventDeleted
    /\ observedDeployments # {}
    /\ Len(hist) >= 1
    /\ \A w \in Workers : pc[w] \in {"Get", "unused"}


(***************************************************************************)
(* C23.  Cooperative shutdown: after the cancellation signal, a worker     *)
(* that is in the middle of an item finishes it (its pass comes to an      *)
(* outcome and Done is called) before it sees the queue's shutdown and     *)
(* stops.  As a state predicate: a worker that has stopped holds no item.  *)
(***************************************************************************)
\* the worker goroutine has ended: runWorker returned, or the process ended
Stopped(w) == pc[w] \in {"stopped", "exited"}

\* C23: a worker stops only after the item it was processing is Done
C23_WorkersFinishTheirItem ==
    \A w \in Workers :
       Stopped(w) => event[w] = NoEvent /\ event[w] \notin processing


(***************************************************************************)
(* C24.  Graceful shutdown drains the work queue: every item that is in    *)
(* the queue when the cancellation signal arrives is processed by a worker *)
(* before Run returns and the process ends; shutdown discards no queued    *)
(* item.  The informer adds nothing after the signal, so it is enough that *)
(* no item is left in the queue when the process ends.                     *)
(***************************************************************************)
\* C24: when the process has ended, the queue holds no item
C24_ShutdownDrainsTheQueue ==
    Exited => queue = <<>> /\ dirty = {}


(***************************************************************************)
(* C25.  Record construction: for a pod in namespace ns owned by a         *)
(* ReplicaSet named <w>-<suffix>, and a container c, the reported          *)
(* deployment name is the template with every {{namespace}},               *)
(* {{deploymentName}} and {{containerName}} replaced by ns, w (the owner   *)
(* name cut at its last '-') and c; a Created item yields a record with    *)
(* status deployed, that name, and the digest of the container's status.   *)
(***************************************************************************)
\* the name of the first ReplicaSet owner of a pod
ReplicaSetName(p) ==
    LET rs == {i \in 1 .. Len(p.OwnerReferences) :
                  p.OwnerReferences[i].Kind = "ReplicaSet"}
    IN  p.OwnerReferences[CHOOSE i \in rs : \A j \in rs : i <= j].Name

\* a name of the form <w>-<suffix>, cut at its last '-'
CutAtLastDash(name) ==
    LET dashes == {i \in 1 .. Len(name) : name[i] = "-"}
        last == CHOOSE i \in dashes : \A j \in dashes : j <= i
    IN  SubSeq(name, 1, last - 1)

\* the template with every placeholder replaced
Substituted(tmpl, ns, w, c) ==
    Flatten([i \in 1 .. Len(tmpl) |->
                IF tmpl[i].ph = "{{namespace}}" THEN Literal(ns)
                ELSE IF tmpl[i].ph = "{{deploymentName}}" THEN Literal(w)
                ELSE IF tmpl[i].ph = "{{containerName}}" THEN Literal(c)
                ELSE tmpl[i]])

\* the image ID the pod's status reports for a container
StatusImageID(p, name) ==
    LET st == {i \in 1 .. Len(p.ContainerStatuses) :
                  p.ContainerStatuses[i].Name = name}
    IN  p.ContainerStatuses[CHOOSE i \in st : TRUE].ImageID

\* C25: the record of a container of a Created item has status deployed,
\* the substituted template as its name and the digest of the container's
\* status
C25_RecordConstruction ==
    [][\A w \in Workers :
          /\ RecordContainer(w) \/ PostOne(w)
          /\ event[w].EventType = EventCreated
          => /\ PostOne(w) => hist' # hist
             /\ hist' # hist =>
                  LET e == Last(hist')
                      c == Head(todo[w]).Name
                  IN  /\ Len(hist') = Len(hist) + 1
                      /\ e.status = StatusDeployed
                      /\ e.dn = Substituted(template, pod[w].Namespace,
                                   CutAtLastDash(ReplicaSetName(pod[w])), c)
                      /\ e.digest = ExtractDigest(StatusImageID(pod[w], c))
                      /\ e.digest = Sha256Prefix \o <<"1">>]_vars

\* the example: prod / web-7f9c9b6d8 / app with the default template was
\* posted as prod/web/app
C25_Witness ==
    /\ template = DefaultTemplate
    /\ \E i \in 1 .. Len(hist) :
          /\ hist[i].dn = <<"p", "r", "o", "d", "/", "w", "e", "b", "/",
                            "a", "p", "p">>
          /\ hist[i].status = StatusDeployed
          /\ hist[i].outcome = "ok"


(***************************************************************************)
(* C26.  ExtractDigest: for an input that contains "sha256:", followed by  *)
(* any sequence X, the empty one included, the result is the substring     *)
(* from the first occurrence of "sha256:" up to but excluding the next '@' *)
(* or space, or to the end of the string; an input without "sha256:" is    *)
(* returned unchanged, and the empty input gives the empty string.         *)
(***************************************************************************)
\* the substring of s from its first "sha256:" to the next '@' or space
DigestIn(s) ==
    LET starts == {i \in 1 .. Len(s) - Sha256PrefixLen + 1 :
                      SubSeq(s, i, i + Sha256PrefixLen - 1) = Sha256Prefix}
        first == CHOOSE i \in starts : \A j \in starts : i <= j
        ends == {j \in first .. Len(s) : s[j] \in {"@", " "}}
        stop == IF ends = {} THEN Len(s) + 1
                ELSE CHOOSE j \in ends : \A k \in ends : j <= k
    IN  SubSeq(s, first, stop - 1)

\* C26: the value ExtractDigest returns
C26_ExtractDigest ==
    ret # <<>> =>
       ret[1] = IF Contains(arg[1], Sha256Prefix) THEN DigestIn(arg[1])
                ELSE arg[1]


(***************************************************************************)
(* C27.  ExtractName: everything from the first '@' on is dropped first;   *)
(* then the text after the last ':' is returned as the tag and removed     *)
(* from the name if and only if that ':' comes after the last '/';         *)
(* otherwise the tag is empty and the name is the whole remaining string,  *)
(* so that a registry port followed by a path is never taken as a tag.     *)
(* The empty input gives ("", "").                                         *)
(***************************************************************************)
\* the positions of a character in a string
Positions(s, c) == {i \in 1 .. Len(s) : s[i] = c}

\* s without everything from its first '@' on
BeforeDigest(s) ==
    IF Positions(s, "@") = {} THEN s
    ELSE SubSeq(s, 1, (CHOOSE i \in Positions(s, "@") :
                          \A j \in Positions(s, "@") : i <= j) - 1)

\* s has a ':' and no '/' after its last ':'
TagFollowsPath(s) ==
    /\ Positions(s, ":") # {}
    /\ \A i \in Positions(s, "/") : \E j \in Positions(s, ":") : i < j

\* C27: the pair ExtractName returns
C27_ExtractName ==
    ret # <<>> =>
       LET rest == BeforeDigest(arg[1])
           colon == CHOOSE i \in Positions(rest, ":") :
                       \A j \in Positions(rest, ":") : j <= i
       IN  /\ Len(ret) = 2
           /\ IF TagFollowsPath(rest)
              THEN /\ ret[1] = SubSeq(rest, 1, colon - 1)
                   /\ ret[2] = SubSeq(rest, colon + 1, Len(rest))
              ELSE /\ ret[1] = rest
                   /\ ret[2] = EmptyStr
           /\ arg[1] = EmptyStr => ret = <<EmptyStr, EmptyStr>>

\* a registry with a port, a path after it, no tag, and a digest: the port
\* was not taken as a tag
C27_Witness ==
    /\ arg = <<<<"r", ":", "5", "/", "n", "@", "d">>>>
    /\ ret = <<<<"r", ":", "5", "/", "n">>, EmptyStr>>


(***************************************************************************)
(* C28.  ValidTemplate(t) is true if and only if t contains at least one   *)
(* of the exact, case-sensitive tokens {{namespace}}, {{deploymentName}},  *)
(* {{containerName}}; with a template that is not valid, startup aborts    *)
(* before the controller is created.                                       *)
(***************************************************************************)
\* some substring of t is one of the three tokens, character for character
HasToken(t) ==
    \E i \in 1 .. Len(t), j \in 1 .. Len(t) :
       SubSeq(t, i, j) \in {TmplNSText, TmplDNText, TmplCNText}

\* no controller exists: New was not called, no worker runs
NoController ==
    /\ workers = 0
    /\ \A w \in Workers : pc[w] = "unused"

\* C28: the value of ValidTemplate, and what main does with it
C28_ValidTemplate ==
    /\ ValidTemplate(arg[1]) <=> HasToken(arg[1])
    /\ ret = <<>> => NoController
    /\ ret # <<>> /\ ~HasToken(arg[1]) =>
          ret = <<"os.Exit(1)">> /\ NoController
    /\ ret # <<>> /\ HasToken(arg[1]) =>
          ret = <<"controller.New">> /\ ~NoController

\* main has exited on a template whose only placeholder has the wrong case
C28_Witness ==
    /\ arg = <<<<"a", "/", "{", "{", "N", "a", "m", "e", "s", "p", "a", "c", "e", "}", "}", "/", "b">>>>
    /\ ret = <<"os.Exit(1)">>
    /\ NoController


(***************************************************************************)
(* C29.  NewClient returns an error, and no client, when the base URL is   *)
(* not HTTPS and does not target a local or in-cluster host (localhost,    *)
(* 127.0.0.1, *.svc.cluster.local), or when the organization does not      *)
(* fully match [A-Za-z0-9_-]+ (the empty string included); otherwise it    *)
(* returns a client whose base URL uses https (the prefix is added when no *)
(* scheme was given) or is an accepted local http URL.                     *)
(***************************************************************************)
\* s ends with suffix
HasSuffix(s, suffix) ==
    Len(s) >= Len(suffix)
    /\ SubSeq(s, Len(s) - Len(suffix) + 1, Len(s)) = suffix

\* the host of an http URL: the text between "http://" and the first ':'
\* or '/' after it
HostOf(url) ==
    LET rest == Suffix(url, Len(SchemeHTTP))
        stops == {i \in 1 .. Len(rest) : rest[i] \in {":", "/"}}
    IN  IF stops = {} THEN rest
        ELSE SubSeq(rest, 1, (CHOOSE i \in stops :
                                 \A j \in stops : i <= j) - 1)

\* the URL targets localhost, 127.0.0.1 or a host under svc.cluster.local
TargetsLocalHost(url) ==
    \/ HostOf(url) \in {HostLocalhost, HostLoopback}
    \/ HasSuffix(HostOf(url), ClusterLocal)

\* C29: what NewClient returns
C29_NewClientValidation ==
    ret # <<>> =>
       LET baseURL == arg[1]
           org == arg[2]
           insecure == HasPrefix(baseURL, SchemeHTTP)
                          /\ ~TargetsLocalHost(baseURL)
       IN  IF insecure \/ ~ValidOrg(org)
           THEN ret[1] = <<>> /\ ret[2] # "nil"
           ELSE /\ ret[2] = "nil"
                /\ Len(ret[1]) = 1
                /\ ret[1][1].org = org
                /\ ret[1][1].baseURL =
                      IF HasPrefix(baseURL, SchemeHTTPS)
                         \/ HasPrefix(baseURL, SchemeHTTP)
                      THEN baseURL
                      ELSE SchemeHTTPS \o baseURL


(***************************************************************************)
(* C30.  An invalid app-credential configuration (an app ID or an          *)
(* installation ID that is not a number, or a private key that cannot be   *)
(* read) makes the construction of the client return a configuration       *)
(* error to the caller of controller.New, before the controller starts;    *)
(* it never ends the process abruptly.                                     *)
(***************************************************************************)
\* the app credentials are set and one of them is not usable
InvalidAppCredentials(cfg, readable) ==
    /\ UsesGHApp(cfg)
    /\ \/ ~AtoiOk(cfg.GHAppID)
       \/ ~AtoiOk(cfg.GHInstallID)
       \/ ~readable

\* C30: New returns (nil, err) on invalid app credentials
C30_InvalidAppCredentialsReturnError ==
    ret # <<>> /\ InvalidAppCredentials(arg[1], arg[2]) =>
       /\ ret # Panic
       /\ Len(ret) = 2
       /\ ret[1] = <<>>
       /\ ret[2] # "nil"


(***************************************************************************)
(* C31.  Startup configuration: the organization name is read from the     *)
(* environment variable ORG; with ORG, LOGICAL_ENVIRONMENT and CLUSTER set *)
(* to non-empty values, and a valid template, startup passes the           *)
(* required-configuration checks, and with any of them missing startup     *)
(* aborts.                                                                 *)
(***************************************************************************)
\* the variables the README marks as required are set
RequiredSet(env) ==
    /\ Getenv(env, "ORG") # EmptyStr
    /\ Getenv(env, "LOGICAL_ENVIRONMENT") # EmptyStr
    /\ Getenv(env, "CLUSTER") # EmptyStr

\* C31: main passes its checks exactly when ORG, LOGICAL_ENVIRONMENT and
\* CLUSTER are set and the template is valid
C31_RequiredConfiguration ==
    ret # <<>> =>
       LET env == arg[1]
           tmpl == getEnvOrDefault(env, "DN_TEMPLATE", defaultTemplate)
       IN  IF RequiredSet(env) /\ HasToken(tmpl)
           THEN ret[1] = "createK8sConfig"
           ELSE ret[1] = "os.Exit(1)"


(***************************************************************************)
(* C32.  Every PostOne call acquires a token from the client's rate        *)
(* limiter before its first HTTP attempt: no request of a call is sent     *)
(* before the token was granted.  If the caller's context is cancelled     *)
(* while the call waits for the token, PostOne returns an error and sends  *)
(* no request.                                                             *)
(***************************************************************************)
\* the call is still in c.rateLimiter.Wait(ctx)
WaitsForToken == postPc = "ratelimit"

\* C32: nothing is sent while the call waits for its token, the wait ends
\* with the token or, on a cancelled context, with an error and no request
C32_TokenBeforeRequest ==
    /\ [](WaitsForToken => httpCalls = 0 /\ attempt = 0 /\ sleeps = 0)
    /\ [](postResult.kind = "rate limiter wait failed" => httpCalls = 0)
    /\ [][WaitsForToken /\ ~WaitsForToken' =>
             /\ httpCalls' = 0
             /\ IF cancelled
                THEN /\ postPc' = "done"
                     /\ postResult'.kind = "rate limiter wait failed"
                ELSE postPc' = "loop" /\ postResult' = Pending]_vars
    /\ [][httpCalls' # httpCalls =>
             ~WaitsForToken /\ httpCalls' = httpCalls + 1]_vars

\* the context was cancelled while the call waited: it returned the error
\* of the wait and sent nothing
C32_Witness ==
    /\ cancelled
    /\ PostDone
    /\ postResult.kind = "rate limiter wait failed"
    /\ httpCalls = 0


(***************************************************************************)
(* C33.  The missed-decommission race is reachable: a Deleted item is      *)
(* skipped because its existence probe answered 'exists', the owning       *)
(* workload is deleted right after the probe, every item is processed to   *)
(* the end, the dedup cache still holds the deployed entry and no          *)
(* decommissioned POST for that identity is ever sent; the skipped item is *)
(* not requeued.                                                           *)
(***************************************************************************)
\* the identities recordContainer derives for the containers of a pod
KeysOfPod(p) ==
    {getCacheKey(getARDeploymentName(p, ContainersOf(p)[i], template),
                 getContainerDigest(p, ContainersOf(p)[i].Name)) :
        i \in 1 .. Len(ContainersOf(p))}

\* no pod is left, none will come, and no item is queued, delayed or being
\* processed except items whose processing is over
Settled ==
    /\ created = podLimit
    /\ \A k \in Keys : indexer[k] = NoPod
    /\ queue = <<>>
    /\ dirty = {}
    /\ waiting = {}
    /\ \A w \in Workers : pc[w] \in {"Get", "Done", "unused"}

\* the identities the cache holds as deployed for which no decommissioned
\* POST was sent
MissedKeys ==
    {key \in observedDeployments :
        /\ LastDelivered(key) = StatusDeployed
        /\ \A i \in EntriesOf(key) :
              hist[i].status = StatusDecommissioned => ~IsPost(hist[i])}

\* worker w has skipped a Deleted item on the answer 'exists' of the probe
SkippedAsScaleDown(w) ==
    /\ event[w].EventType = EventDeleted
    /\ event[w].DeletedPod # NoPod
    /\ exists[w] = "found"

\* C33: an item skipped on the probe's 'exists' is finished with Forget and
\* without a POST, it is not requeued; and once the run has settled with a
\* missed identity it stays so: no decommissioned POST is sent for it later
C33_MissedDecommission ==
    /\ [][\A w \in Workers :
             SkippedAsScaleDown(w) /\ pc[w] = "return" /\ pc'[w] # "return" =>
                /\ pc'[w] = "Done"
                /\ hist' = hist
                /\ observedDeployments' = observedDeployments
                /\ waiting' = waiting
                /\ event[w] \notin DOMAIN failures']_vars
    /\ [][Settled /\ MissedKeys # {} =>
             Settled' /\ MissedKeys' = MissedKeys /\ hist' = hist]_vars

\* the race has happened: the probe answered 'exists', the Deployment is
\* gone now, the item was forgotten, nothing is left to process and the
\* identity of the deleted pod is still cached as deployed
C33_Witness ==
    /\ Settled
    /\ \E w \in Workers :
          /\ pc[w] = "Done"
          /\ SkippedAsScaleDown(w)
          /\ getDeploymentName(event[w].DeletedPod) \notin deployments
          /\ processing = {event[w]}
          /\ KeysOfPod(event[w].DeletedPod) # {}
          /\ KeysOfPod(event[w].DeletedPod) \subseteq MissedKeys


(***************************************************************************)
(* C34.  Worker loop protocol: for every item obtained with Get the worker *)
(* calls exactly one of Forget (processing returned nil) or AddRateLimited *)
(* (processing returned an error) and then Done, in that order.  Forget    *)
(* resets the item's failure count, so the requeue delay of an item grows  *)
(* only across consecutive failures of that item.                          *)
(***************************************************************************)
\* worker w calls Forget or AddRateLimited in this step
CallsForgetOrAdd(w) == pc[w] = "return" /\ pc'[w] # "return"

\* worker w calls Done in this step
CallsDone(w) == pc[w] = "Done" /\ pc'[w] # "Done"

\* C34: the item of a busy worker is in processing until Done; processEvent
\* is followed by Forget on nil and by AddRateLimited on an error, each
\* leaving the item in processing; Done comes only after that call and
\* touches neither the failure counts nor the delaying queue; the failure
\* count of an item changes in no other step, grows by one per failure and
\* is gone after a Forget
C34_WorkerLoopProtocol ==
    /\ [](\A w \in Workers : Active(w) => event[w] \in processing)
    /\ [](\A item \in DOMAIN failures : failures[item] >= 1)
    /\ [][\A w \in Workers : CallsForgetOrAdd(w) =>
             /\ pc'[w] = "Done"
             /\ processing' = processing
             /\ queue' = queue
             /\ IF procErr[w]
                THEN /\ failures'[event[w]] = NumRequeues(event[w]) + 1
                     /\ waiting' = waiting \cup {event[w]}
                ELSE /\ event[w] \notin DOMAIN failures'
                     /\ waiting' = waiting
             /\ \A item \in (DOMAIN failures) \ {event[w]} :
                   item \in DOMAIN failures' /\ failures'[item] = failures[item]]_vars
    /\ [][\A w \in Workers : pc'[w] = "Done" /\ pc[w] # "Done" =>
             pc[w] = "return"]_vars
    /\ [][\A w \in Workers : CallsDone(w) =>
             /\ pc'[w] = "Get"
             /\ processing' = processing \ {event[w]}
             /\ failures' = failures
             /\ waiting' = waiting]_vars
    /\ [][failures' # failures => \E w \in Workers : CallsForgetOrAdd(w)]_vars

\* the only pod's Created or Deleted item failed, was requeued with a
\* failure count, was taken again and delivered: the worker has called
\* Forget, the count is gone, and Done is still to come
C34_Witness ==
    /\ created = 1
    /\ failures = <<>>
    /\ \E w \in Workers :
          /\ pc[w] = "Done"
          /\ ~procErr[w]
          /\ event[w] \in processing
          /\ \E i, j \in 1 .. Len(hist) :
                /\ i < j
                /\ hist[i].outcome = "error"
                /\ hist[j].outcome = "ok"
                /\ hist[i].status = StatusOf(event[w])
                /\ hist[j].status = StatusOf(event[w])
                /\ CacheKeyOf(hist[i]) = CacheKeyOf(hist[j])


(***************************************************************************)
(* C35.  Cancellation during delivery: when the cancellation signal fires  *)
(* while PostOne sleeps between two attempts, PostOne returns at once with *)
(* an error that is not a ClientError and makes no further HTTP attempt;   *)
(* the reconciler then treats the item as failed and hands it to           *)
(* AddRateLimited.                                                         *)
(***************************************************************************)
BackoffCancelled == "context cancelled during retry backoff"

\* PostOne has returned the error of a cancelled sleep to worker w
SleepWasCancelled(w) ==
    /\ pc[w] = "PostOne"
    /\ postPc = "done"
    /\ postResult.kind = BackoffCancelled

\* C35: a sleeping PostOne whose context is cancelled leaves the sleep only
\* by returning the cancellation error, which is not a ClientError, and no
\* request is sent on the way or after it; recordContainer records a failed
\* delivery and leaves the cache alone, the error stays with the item until
\* Done, and processNextItem answers it with AddRateLimited
C35_CancelDuringBackoff ==
    /\ [][postPc = "sleep" /\ cancelled /\ postPc' # "sleep" =>
             /\ postPc' = "done"
             /\ postResult'.kind = BackoffCancelled
             /\ ~IsClientError(postResult'.kind)
             /\ httpCalls' = httpCalls]_vars
    /\ [][cancelled /\ postPc \in {"sleep", "done", "ratelimit"} =>
             httpCalls' <= httpCalls]_vars
    /\ [][\A w \in Workers :
             SleepWasCancelled(w) /\ pc'[w] \notin {"PostOne", "exited"} =>
                /\ procErr'[w]
                /\ Len(hist') = Len(hist) + 1
                /\ Last(hist').outcome = "error"
                /\ observedDeployments' = observedDeployments]_vars
    /\ [][\A w \in Workers :
             procErr[w] /\ pc[w] # "Done" /\ pc'[w] # "exited" =>
                procErr'[w]]_vars
    /\ [][\A w \in Workers :
             procErr[w] /\ pc[w] = "return" /\ pc'[w] \notin {"return", "exited"} =>
                /\ pc'[w] = "Done"
                /\ failures'[event[w]] = NumRequeues(event[w]) + 1
                /\ waiting' = IF shuttingDown THEN waiting
                              ELSE waiting \cup {event[w]}]_vars

\* the only delivery of the run was cancelled in its sleep: it had sent a
\* request that failed softly, was not exhausted and got no client error;
\* the worker has recorded the failure and called AddRateLimited
C35_Witness ==
    /\ cancelled
    /\ Len(hist) = 1
    /\ hist[1].outcome = "error"
    /\ postMetrics.softFail >= 1
    /\ postMetrics.hardFail = 0
    /\ postMetrics.clientError = 0
    /\ postMetrics.ok = 0
    /\ \E w \in Workers :
          /\ pc[w] = "Done"
          /\ procErr[w]
          /\ event[w] \in DOMAIN failures
          /\ failures[event[w]] = 1


(***************************************************************************)
(* C36.  With two or more workers, when the Created items of two different *)
(* pods whose containers map to the same identity are processed at the     *)
(* same time starting from an empty cache, at most one deployed POST is    *)
(* sent for that identity: the check of the dedup cache and the later      *)
(* insert act atomically with respect to the other worker.                 *)
(***************************************************************************)
\* worker w is past the gate of recordContainer with a deployed record
PastTheGate(w) ==
    /\ pc[w] \in {"PostOne", "updateCache"}
    /\ event[w].EventType = EventCreated

\* worker w has delivered its deployed record and has not yet stored the key
DeliveredNotStored(w) ==
    /\ pc[w] = "updateCache"
    /\ event[w].EventType = EventCreated

\* C36: two workers that process the Created items of different pods are
\* never both past the gate for the same identity, so that the identity
\* never gets two deployed POSTs from a cache without it
C36_AtMostOneDeployedPost ==
    \A v, w \in Workers :
       ( /\ v # w
         /\ event[v].Key # event[w].Key
         /\ PastTheGate(v)
         /\ DeliveredNotStored(w)
         /\ CurrentKey(v) = CurrentKey(w)
         /\ CurrentKey(v) \notin observedDeployments )
       => /\ pc[v] # "updateCache"
          /\ Cardinality({i \in EntriesOf(CurrentKey(w)) :
                             /\ hist[i].status = StatusDeployed
                             /\ IsPost(hist[i])}) <= 1


(***************************************************************************)
(* C37.  In every execution and interleaving a decommissioned POST for an  *)
(* identity is sent only after a deployed POST for the same identity was   *)
(* delivered successfully earlier in the same process lifetime.            *)
(***************************************************************************)
\* a deployed POST for the identity was delivered among the first n entries
DeployedDeliveredBefore(key, n) ==
    \E i \in 1 .. n :
       /\ CacheKeyOf(hist[i]) = key
       /\ hist[i].status = StatusDeployed
       /\ hist[i].outcome = "ok"

\* C37: every decommissioned POST of the history, and every one a worker is
\* sending, has a delivered deployed POST for its identity before it
C37_DecommissionedAfterDeployed ==
    /\ \A j \in 1 .. Len(hist) :
          hist[j].status = StatusDecommissioned /\ IsPost(hist[j]) =>
             DeployedDeliveredBefore(CacheKeyOf(hist[j]), j - 1)
    /\ \A w \in Workers :
          pc[w] = "PostOne" /\ event[w].EventType = EventDeleted =>
             DeployedDeliveredBefore(CurrentKey(w), Len(hist))

\* a decommissioned POST was delivered
C37_Witness ==
    \E j \in 1 .. Len(hist) :
       /\ hist[j].status = StatusDecommissioned
       /\ hist[j].outcome = "ok"
       /\ DeployedDeliveredBefore(CacheKeyOf(hist[j]), j - 1)


(***************************************************************************)
(* C38.  Per-pod ordering across kinds: for one pod, with two or more      *)
(* workers, once the pod's Deleted item has been completely processed no   *)
(* deployed POST derived from that pod's Created item is sent afterwards   *)
(* and no dedup-cache entry is inserted for it afterwards.                 *)
(***************************************************************************)
\* worker v holds the Created item of pod key and is about to send a
\* deployed POST for it, is sending it, or is about to store its key
DeployedStillToCome(v, key) ==
    /\ event[v] = CreatedEvent(key)
    /\ \/ pc[v] = "recordContainer" /\ CurrentDN(v) # EmptyStr
                                    /\ CurrentDigest(v) # EmptyStr
                                    /\ CurrentKey(v) \notin observedDeployments
       \/ pc[v] = "PostOne"
       \/ pc[v] = "updateCache"

\* C38: when a worker calls Done on the Deleted item of a pod, no other
\* worker holds the pod's Created item with a deployed POST or a cache
\* insert still to come
C38_NoDeployedAfterDelete ==
    [][\A w, v \in Workers :
          CallsDone(w) /\ event[w].EventType = EventDeleted /\ v # w =>
             ~DeployedStillToCome(v, event[w].Key)]_vars

=============================================================================
